---- MODULE Spec2Model ----
(***************************************************************************)
(* A model of codai's persistent analysis cache (code_analyzer/cache.go,   *)
(* code_analyzer/cache_performance.go) and of the incremental project scan *)
(* built on it (code_analyzer/analyzer.go).                                *)
(*                                                                         *)
(* Time is counted in ticks; TicksPerSec ticks make one second, so that a  *)
(* time.Time (compared tick-exact by Time.Equal) and its Unix() value      *)
(* (whole seconds) are different things.                                   *)
(***************************************************************************)
EXTENDS Integers, Sequences, FiniteSets, TLC

VARIABLES
    now,      \* the wall clock read by time.Now(), in ticks
    fs,       \* the live files: path -> NoFile or [exists, content, mtime]
    store,    \* the cache directory: cache key -> NoCacheFile or the gob bytes of a CacheEntry
    stats,    \* CacheManager.stats: TotalRequests, CacheHits, CacheMisses
    written,  \* history: per cache key, the last successful write still in the store
    hist,     \* history: the last successful incremental scan and what happened since
    ret,      \* the call that has just returned, with its arguments and results
    mutex,    \* the two sync.RWMutex: FileCache.mutex (store) and CacheStats.mutex (stats)
    procs,    \* the goroutines inside a call: where each one is, and its local variables
    log       \* history: the typed calls made since the counters were last reset

vars == <<now, fs, store, stats, written, hist, ret, mutex, procs, log>>

\* what the calls that run to completion in one step leave alone
aux == <<mutex, procs, log>>

----------------------------------------------------------------------------
(* Bounds of the model *)

MaxTime == 2
MaxRequests == 2

\* the longest sequence of typed calls followed between two resets of the counters
MaxLog == 4

\* the clock of the scan specification stops earlier: its states grow fastest with time
MaxScanTime == 1

(* time.Time.Unix(): whole seconds; the model's clock has TicksPerSec ticks in each *)
TicksPerSec == 2

Times == 0..MaxTime

Unix(t) == t \div TicksPerSec

----------------------------------------------------------------------------
(* The file tree *)

RootDir == "/p"

\* the relative paths of the project tree, in the lexical order filepath.WalkDir visits them
WalkOrder == <<"a", "b">>

TreePaths == {WalkOrder[i] : i \in 1..Len(WalkOrder)}

\* filepath.Join(rootDir, relativePath)
JoinPath(rootDir, relativePath) == rootDir \o "/" \o relativePath

\* fmt.Sprintf("%s_project_scan", rootDir) and fmt.Sprintf("%s_snapshot", rootDir)
ProjectCacheKey(rootDir) == rootDir \o "_project_scan"

SnapshotKey(rootDir) == rootDir \o "_snapshot"

\* the identity of the derived facts of a file without the distinguishing suffix
TreeSitterIdentityNoSuffix(filePath) == filePath

\* the suffix that tells a file's derived-facts entry from its content entry
TreeSitterIdentity(filePath) == filePath \o ".treesitter"

TreeFiles == {JoinPath(RootDir, p) : p \in TreePaths}

\* the paths that may name a file on disk
FilePaths == TreeFiles \cup {SnapshotKey(RootDir)}

\* every identity string a cache key is derived from
Identities ==
    FilePaths \cup {TreeSitterIdentity(f) : f \in TreeFiles}
              \cup {ProjectCacheKey(RootDir), SnapshotKey(RootDir)}

\* file contents; a file's size is the length of its content, and LargeContent stands
\* for a content longer than the scan's size ceiling
Contents == {"x", "y", "zz"}

LargeContent == "LARGE"

\* the scan skips files over 100 KB (100 * 1024 bytes)
SizeCeiling == 100 * 1024

Size(content) == IF content = LargeContent THEN SizeCeiling + 1 ELSE Len(content)

NoFile == [exists |-> FALSE]

File(content, mtime) == [exists |-> TRUE, content |-> content, mtime |-> mtime]

\* os.Stat(path): the size and modification time of a live file, or an error
Stat(path) ==
    IF path \in DOMAIN fs /\ fs[path].exists
    THEN [err |-> FALSE, Size |-> Size(fs[path].content), ModTime |-> fs[path].mtime]
    ELSE [err |-> TRUE]

----------------------------------------------------------------------------
(* CacheEntry and its gob encoding *)

\* the dynamic Go types a CacheEntry.Data holds (gob.Register, NewCacheManager)
TBytes == "[]byte"

TStrings == "[]string"

TFullContextData == "*models.FullContextData"

TProjectSnapshot == "*models.ProjectSnapshot"

\* an interface{} value: its dynamic type and the value
Iface(type, val) == [type |-> type, val |-> val]

NilData == Iface("nil", "nil")

\* cache.go, type CacheEntry
CacheEntry(data, timestamp, fileSize, modTime, hash) ==
    [Data |-> data, Timestamp |-> timestamp, FileSize |-> fileSize,
     ModTime |-> modTime, Hash |-> hash]

\* the name gob transmits for a registered concrete type
GobTypeName(type) ==
    CASE type = TBytes -> "[]uint8"
      [] type = TStrings -> "[]string"
      [] type = TFullContextData -> "*models.FullContextData"
      [] type = TProjectSnapshot -> "*models.ProjectSnapshot"

GobTypeOf(name) ==
    CASE name = "[]uint8" -> TBytes
      [] name = "[]string" -> TStrings
      [] name = "*models.FullContextData" -> TFullContextData
      [] name = "*models.ProjectSnapshot" -> TProjectSnapshot

\* gob.NewEncoder(&buffer).Encode(entry): the interface value travels as the registered
\* name of its type and its value, the times as their wall-clock instants
GobEncode(entry) ==
    [exists |-> TRUE,
     wire |-> <<GobTypeName(entry.Data.type), entry.Data.val, entry.Timestamp,
                entry.FileSize, entry.ModTime, entry.Hash>>]

\* gob.NewDecoder(...).Decode(&entry)
GobDecode(bytes) ==
    CacheEntry(Iface(GobTypeOf(bytes.wire[1]), bytes.wire[2]), bytes.wire[3],
               bytes.wire[4], bytes.wire[5], bytes.wire[6])

NoCacheFile == [exists |-> FALSE]

\* a file ioutil.WriteFile has opened with O_TRUNC and not yet written
Truncated == [exists |-> TRUE, wire |-> <<>>]

\* a cache file whose bytes are not a gob stream
Corrupt == [exists |-> TRUE, wire |-> <<"?">>]

\* a cache file whose permission bits deny this process reading and writing it
Denied == [exists |-> TRUE, wire |-> <<>>, mode |-> 0]

\* ioutil.ReadFile(cachePath) returns an error
ReadFileFails(bytes) == "mode" \in DOMAIN bytes

\* no file, the cache directory itself being gone
NoDirectory == [exists |-> FALSE, nodir |-> TRUE]

\* ioutil.WriteFile(cachePath, ...) returns an error: the open fails, nothing is truncated
WriteFileFails(bytes) == "mode" \in DOMAIN bytes \/ "nodir" \in DOMAIN bytes

\* decoder.Decode(&entry) fails on a stream that ends early
GobDecodeFails(bytes) == Len(bytes.wire) < 6

\* what a call finds at a cache path: no file, a file it may not open, bytes that do not
\* decode, or an entry with a payload of some type
FoundAt(bytes) ==
    IF ~bytes.exists THEN "missing"
    ELSE IF ReadFileFails(bytes) THEN "denied"
    ELSE IF GobDecodeFails(bytes) THEN "undecodable"
    ELSE bytes.wire[1]

\* FileCache.generateCacheKey: the hex md5 of the identity plus ".cache"; md5 is taken
\* to be injective on the identities of the model
generateCacheKey(filePath) == <<"md5", filePath>> 

CacheKeys == {generateCacheKey(id) : id \in Identities}

----------------------------------------------------------------------------
(* The state the cache operations thread through: the store directory, the  *)
(* counters and the history of writes.                                       *)

NoWrite == [type |-> "none"]

\* history record of a write: the type and value the caller passed and the stat of the
\* source file at that moment
WriteRecord(data, src) == [type |-> data.type, val |-> data.val, src |-> src]

CacheState == [store |-> store, stats |-> stats, written |-> written]

\* ioutil.WriteFile(cachePath, gobData, 0644)
WriteCacheFile(st, cacheKey, bytes, record) ==
    [st EXCEPT !.store[cacheKey] = bytes, !.written[cacheKey] = record]

\* os.Remove(cachePath)
RemoveCacheFile(st, cacheKey) ==
    [st EXCEPT !.store[cacheKey] = NoCacheFile, !.written[cacheKey] = NoWrite]

\* cache_performance.go, recordCacheHit
recordCacheHit(st) ==
    [st EXCEPT !.stats.TotalRequests = @ + 1, !.stats.CacheHits = @ + 1]

\* cache_performance.go, recordCacheMiss
recordCacheMiss(st) ==
    [st EXCEPT !.stats.TotalRequests = @ + 1, !.stats.CacheMisses = @ + 1]

\* isFileChanged with the modification time left out of the comparison
isFileChangedSizeOnly(filePath, entry) ==
    LET fileInfo == Stat(filePath) IN
    IF fileInfo.err THEN TRUE ELSE fileInfo.Size # entry.FileSize

\* FileCache.isFileChanged: TRUE also when the source file cannot be stat'd
isFileChanged(filePath, entry) ==
    LET fileInfo == Stat(filePath) IN
    IF fileInfo.err THEN TRUE
    ELSE fileInfo.ModTime # entry.ModTime \/ fileInfo.Size # entry.FileSize

\* FileCache.Get without the os.Remove of an invalidated entry
FileCacheGetKeepStale(st, filePath) ==
    LET cacheKey == generateCacheKey(filePath) IN
    IF ~st.store[cacheKey].exists
    THEN [st |-> st, data |-> NilData, found |-> FALSE]
    ELSE IF ReadFileFails(st.store[cacheKey]) \/ GobDecodeFails(st.store[cacheKey])
    THEN [st |-> st, data |-> NilData, found |-> FALSE]
    ELSE LET entry == GobDecode(st.store[cacheKey]) IN
         IF isFileChanged(filePath, entry)
         THEN [st |-> st, data |-> NilData, found |-> FALSE]
         ELSE [st |-> st, data |-> entry.Data, found |-> TRUE]

\* FileCache.Get
FileCacheGet(st, filePath) ==
    LET cacheKey == generateCacheKey(filePath) IN
    IF ~st.store[cacheKey].exists
    THEN [st |-> st, data |-> NilData, found |-> FALSE]
    ELSE IF ReadFileFails(st.store[cacheKey]) \/ GobDecodeFails(st.store[cacheKey])
    THEN [st |-> st, data |-> NilData, found |-> FALSE]
    ELSE LET entry == GobDecode(st.store[cacheKey]) IN
         IF isFileChanged(filePath, entry)
         THEN [st |-> RemoveCacheFile(st, cacheKey), data |-> NilData, found |-> FALSE]
         ELSE [st |-> st, data |-> entry.Data, found |-> TRUE]

\* FileCache.Set recording time.Now() where the file's modification time belongs
FileCacheSetNowAsModTime(st, filePath, data) ==
    LET fileInfo == Stat(filePath)
        cacheKey == generateCacheKey(filePath)
    IN  IF fileInfo.err \/ WriteFileFails(st.store[cacheKey])
        THEN [st |-> st, err |-> TRUE]
        ELSE [st |-> WriteCacheFile(st, cacheKey,
                        GobEncode(CacheEntry(data, now, fileInfo.Size, now, cacheKey)),
                        WriteRecord(data, fileInfo)),
              err |-> FALSE]

\* FileCache.Set going on after a failed os.Stat, size 0 and time.Now() in the entry
FileCacheSetUnstatted(st, filePath, data) ==
    LET fileInfo == Stat(filePath)
        cacheKey == generateCacheKey(filePath)
    IN  IF WriteFileFails(st.store[cacheKey])
        THEN [st |-> st, err |-> TRUE]
        ELSE [st |-> WriteCacheFile(st, cacheKey,
                        GobEncode(CacheEntry(data, now,
                                             IF fileInfo.err THEN 0 ELSE fileInfo.Size,
                                             IF fileInfo.err THEN now ELSE fileInfo.ModTime,
                                             cacheKey)),
                        WriteRecord(data, fileInfo)),
              err |-> FALSE]

\* FileCache.Set
FileCacheSet(st, filePath, data) ==
    LET fileInfo == Stat(filePath)
        cacheKey == generateCacheKey(filePath)
    IN  IF fileInfo.err \/ WriteFileFails(st.store[cacheKey])
        THEN [st |-> st, err |-> TRUE]
        ELSE [st |-> WriteCacheFile(st, cacheKey,
                        GobEncode(CacheEntry(data, now, fileInfo.Size, fileInfo.ModTime,
                                             cacheKey)),
                        WriteRecord(data, fileInfo)),
              err |-> FALSE]

\* the typed read with the type assertion left out: whatever FileCache.Get found is
\* handed to the caller
TypedFileCacheGetUnasserted(st, filePath, type) ==
    LET got == FileCacheGet(st, filePath) IN
    IF ~got.found
    THEN [st |-> recordCacheMiss(got.st), val |-> "nil", found |-> FALSE]
    ELSE [st |-> recordCacheHit(got.st), val |-> got.data.val, found |-> TRUE]

\* the typed read shared by GetConfigCache and GetFileContentCache: FileCache.Get, a type
\* assertion, and one counter
TypedFileCacheGet(st, filePath, type) ==
    LET got == FileCacheGet(st, filePath) IN
    IF ~got.found
    THEN [st |-> recordCacheMiss(got.st), val |-> "nil", found |-> FALSE]
    ELSE IF got.data.type = type
         THEN [st |-> recordCacheHit(got.st), val |-> got.data.val, found |-> TRUE]
         ELSE [st |-> recordCacheMiss(got.st), val |-> "nil", found |-> FALSE]

\* CacheManager.GetConfigCache
GetConfigCache(st, configPath) == TypedFileCacheGet(st, configPath, TFullContextData)

\* CacheManager.SetConfigCache
SetConfigCache(st, configPath, data) ==
    FileCacheSet(st, configPath, Iface(TFullContextData, data))

\* CacheManager.GetFileContentCache
GetFileContentCache(st, filePath) == TypedFileCacheGet(st, filePath, TBytes)

\* CacheManager.SetFileContentCache
SetFileContentCache(st, filePath, content) ==
    FileCacheSet(st, filePath, Iface(TBytes, content))

\* the read shared by GetTreeSitterCache and GetProjectSnapshot: existence, decode and a
\* type assertion; the source file is not looked at
RawGet(st, identity, type) ==
    LET cacheKey == generateCacheKey(identity) IN
    IF ~st.store[cacheKey].exists
    THEN [val |-> "nil", found |-> FALSE]
    ELSE IF ReadFileFails(st.store[cacheKey]) \/ GobDecodeFails(st.store[cacheKey])
    THEN [val |-> "nil", found |-> FALSE]
    ELSE LET entry == GobDecode(st.store[cacheKey]) IN
         IF entry.Data.type = type
         THEN [val |-> entry.Data.val, found |-> TRUE]
         ELSE [val |-> "nil", found |-> FALSE]

\* CacheManager.GetTreeSitterCache
GetTreeSitterCache(st, filePath) ==
    LET got == RawGet(st, TreeSitterIdentity(filePath), TStrings) IN
    [st |-> IF got.found THEN recordCacheHit(st) ELSE recordCacheMiss(st),
     val |-> got.val, found |-> got.found]

\* CacheManager.SetTreeSitterCache: FileSize 0 and ModTime time.Now(), no stat
SetTreeSitterCache(st, filePath, codeParts) ==
    LET data == Iface(TStrings, codeParts)
        cacheKey == generateCacheKey(TreeSitterIdentity(filePath))
    IN  IF WriteFileFails(st.store[cacheKey])
        THEN [st |-> st, err |-> TRUE]
        ELSE [st |-> WriteCacheFile(st, cacheKey,
                        GobEncode(CacheEntry(data, now, 0, now,
                                             TreeSitterIdentity(filePath))),
                        WriteRecord(data, Stat(filePath))),
              err |-> FALSE]

\* SetProjectSnapshot writing through FileCache.Set, which stats the key as a file
SetProjectSnapshotViaSet(st, key, snapshot) ==
    FileCacheSet(st, key, Iface(TProjectSnapshot, snapshot))

\* CacheManager.SetProjectSnapshot: FileSize 0 and ModTime time.Now(), no stat
SetProjectSnapshot(st, key, snapshot) ==
    LET data == Iface(TProjectSnapshot, snapshot)
        cacheKey == generateCacheKey(key)
    IN  IF WriteFileFails(st.store[cacheKey])
        THEN [st |-> st, err |-> TRUE]
        ELSE [st |-> WriteCacheFile(st, cacheKey,
                        GobEncode(CacheEntry(data, now, 0, now, key)),
                        WriteRecord(data, Stat(key))),
              err |-> FALSE]

\* GetProjectSnapshot reading through FileCache.Get, staleness check included
GetProjectSnapshotChecked(st, key) ==
    LET got == FileCacheGet(st, key) IN
    IF got.found /\ got.data.type = TProjectSnapshot
    THEN [st |-> got.st, val |-> got.data.val, found |-> TRUE]
    ELSE [st |-> got.st, val |-> "nil", found |-> FALSE]

\* CacheManager.GetProjectSnapshot: counts neither a hit nor a miss
GetProjectSnapshot(st, key) ==
    LET got == RawGet(st, key, TProjectSnapshot) IN
    [st |-> st, val |-> got.val, found |-> got.found]

\* FileCache.Clear: os.RemoveAll(cacheDir), the directory goes with its files
FileCacheClear(st) ==
    [st EXCEPT !.store = [k \in CacheKeys |-> NoDirectory],
               !.written = [k \in CacheKeys |-> NoWrite]]

\* CacheManager.ClearCache: removes every file of the cache directory
ClearCacheFiles(st) ==
    [st EXCEPT !.store = [k \in CacheKeys |-> NoCacheFile],
               !.written = [k \in CacheKeys |-> NoWrite]]

----------------------------------------------------------------------------
(* Values the callers of the typed accessors pass *)

\* models.FileData
FileData(relativePath, code, treeSitterCode) ==
    [RelativePath |-> relativePath, Code |-> code, TreeSitterCode |-> treeSitterCode]

\* models.FullContextData
FullContextData(fileData, rawCodes) == [FileData |-> fileData, RawCodes |-> rawCodes]

\* models.FileSnapshot
FileSnapshot(relativePath, modTime, size, hash) ==
    [RelativePath |-> relativePath, ModTime |-> modTime, Size |-> size, Hash |-> hash]

\* models.ProjectSnapshot; Files is a map from relative path to FileSnapshot
ProjectSnapshot(rootDir, timestamp, files) ==
    [RootDir |-> rootDir, Timestamp |-> timestamp, Files |-> files]

EmptyFiles == [p \in {} |-> FileSnapshot(p, 0, 0, <<0, 0>>)]

SomeCodeParts == {<<"func main">>, <<"type T", "func f">>}

SomeBundles ==
    {FullContextData(<<>>, <<>>),
     FullContextData(<<FileData("a", "x", <<"func main">>)>>, <<<<"a", <<"func main">>>>>>)}

SomeSnapshots ==
    {ProjectSnapshot(RootDir, 0, EmptyFiles),
     ProjectSnapshot(RootDir, 0, [p \in {"a"} |-> FileSnapshot(p, 1, 1, <<0, 1>>)])}

----------------------------------------------------------------------------
(* The calls of the cache manager's interface, one action each *)

EnvMark == [op |-> "env"]

Commit(st) ==
    /\ store' = st.store
    /\ stats' = st.stats
    /\ written' = st.written

\* a counted call starts only while the counters are below the cap of the model
CanCount == stats.TotalRequests < MaxRequests

EntryCount(st) == Cardinality({k \in CacheKeys : st.store[k].exists})

\* what a typed read returned, with what the history knew of the entry when it was called,
\* the number of entries before and after, and what the call added to each counter
GetResult(op, identity, filePath, got) ==
    [op |-> op, id |-> identity, file |-> filePath, found |-> got.found, val |-> got.val,
     pre |-> written[generateCacheKey(identity)],
     cacheFile |-> FoundAt(store[generateCacheKey(identity)]),
     before |-> EntryCount(CacheState), after |-> EntryCount(got.st),
     same |-> (got.st.store = store),
     total |-> got.st.stats.TotalRequests - stats.TotalRequests,
     hits |-> got.st.stats.CacheHits - stats.CacheHits,
     misses |-> got.st.stats.CacheMisses - stats.CacheMisses]

SetResult(op, identity, type, val, res) ==
    [op |-> op, id |-> identity, type |-> type, val |-> val, err |-> res.err,
     cacheFile |-> FoundAt(store[generateCacheKey(identity)]),
     same |-> (res.st.store = store)]

Tick ==
    /\ now < MaxTime
    /\ now' = now + 1
    /\ UNCHANGED <<fs, store, stats, written, hist, ret>>
    /\ UNCHANGED aux

DoGetFileContentCache(filePath) ==
    /\ CanCount
    /\ LET got == GetFileContentCache(CacheState, filePath) IN
         /\ Commit(got.st)
         /\ ret' = GetResult("GetFileContentCache", filePath, filePath, got)
    /\ UNCHANGED <<now, fs, hist>>
    /\ UNCHANGED aux

DoSetFileContentCache(filePath, content) ==
    /\ LET res == SetFileContentCache(CacheState, filePath, content) IN
         /\ Commit(res.st)
         /\ ret' = SetResult("SetFileContentCache", filePath, TBytes, content, res)
    /\ UNCHANGED <<now, fs, hist>>
    /\ UNCHANGED aux

DoGetTreeSitterCache(filePath) ==
    /\ CanCount
    /\ LET got == GetTreeSitterCache(CacheState, filePath) IN
         /\ Commit(got.st)
         /\ ret' = GetResult("GetTreeSitterCache", TreeSitterIdentity(filePath), filePath,
                             got)
    /\ UNCHANGED <<now, fs, hist>>
    /\ UNCHANGED aux

DoSetTreeSitterCache(filePath, codeParts) ==
    /\ LET res == SetTreeSitterCache(CacheState, filePath, codeParts) IN
         /\ Commit(res.st)
         /\ ret' = SetResult("SetTreeSitterCache", TreeSitterIdentity(filePath),
                             TStrings, codeParts, res)
    /\ UNCHANGED <<now, fs, hist>>
    /\ UNCHANGED aux

DoGetConfigCache(configPath) ==
    /\ CanCount
    /\ LET got == GetConfigCache(CacheState, configPath) IN
         /\ Commit(got.st)
         /\ ret' = GetResult("GetConfigCache", configPath, configPath, got)
    /\ UNCHANGED <<now, fs, hist>>
    /\ UNCHANGED aux

DoSetConfigCache(configPath, data) ==
    /\ LET res == SetConfigCache(CacheState, configPath, data) IN
         /\ Commit(res.st)
         /\ ret' = SetResult("SetConfigCache", configPath, TFullContextData, data, res)
    /\ UNCHANGED <<now, fs, hist>>
    /\ UNCHANGED aux

DoGetProjectSnapshot(key) ==
    /\ LET got == GetProjectSnapshot(CacheState, key) IN
         /\ Commit(got.st)
         /\ ret' = GetResult("GetProjectSnapshot", key, key, got)
    /\ UNCHANGED <<now, fs, hist>>
    /\ UNCHANGED aux

DoSetProjectSnapshot(key, snapshot) ==
    /\ LET res == SetProjectSnapshot(CacheState, key, snapshot) IN
         /\ Commit(res.st)
         /\ ret' = SetResult("SetProjectSnapshot", key, TProjectSnapshot, snapshot, res)
    /\ UNCHANGED <<now, fs, hist>>
    /\ UNCHANGED aux

\* history: what happened to the project tree and to the store since the last successful
\* incremental scan: nothing, one file added (and nothing else), or something else
NoScan == [scanned |-> FALSE]

Touched(path, wasThere) ==
    IF ~hist.scanned \/ path \notin TreeFiles THEN hist
    ELSE IF hist.delta = <<"none">> /\ ~wasThere
         THEN [hist EXCEPT !.delta = <<"added", path>>]
         ELSE [hist EXCEPT !.delta = <<"other">>]

Evicted == IF hist.scanned THEN [hist EXCEPT !.delta = <<"other">>] ELSE hist

\* the environment writes a file: ioutil.WriteFile sets the content, the filesystem the
\* modification time
WriteFile(path, content) ==
    /\ fs' = [fs EXCEPT ![path] = File(content, now)]
    /\ hist' = Touched(path, fs[path].exists)
    /\ ret' = EnvMark
    /\ UNCHANGED <<now, store, stats, written>>
    /\ UNCHANGED aux

\* the environment removes a file
RemoveFile(path) ==
    /\ fs[path].exists
    /\ fs' = [fs EXCEPT ![path] = NoFile]
    /\ hist' = Touched(path, TRUE)
    /\ ret' = EnvMark
    /\ UNCHANGED <<now, store, stats, written>>
    /\ UNCHANGED aux

\* CacheManager.ClearCache
DoClearCache ==
    /\ Commit(ClearCacheFiles(CacheState))
    /\ hist' = Evicted
    /\ ret' = [op |-> "ClearCache", removed |-> EntryCount(CacheState)]
    /\ UNCHANGED <<now, fs>>
    /\ UNCHANGED aux

ZeroStats == [TotalRequests |-> 0, CacheHits |-> 0, CacheMisses |-> 0]

\* cache_performance.go, ResetPerformanceStats
DoResetPerformanceStats ==
    /\ stats' = ZeroStats
    /\ ret' = [op |-> "ResetPerformanceStats"]
    /\ UNCHANGED <<now, fs, store, written, hist>>
    /\ UNCHANGED aux

----------------------------------------------------------------------------
(* The content cache and the derived-facts cache of one file, called in any *)
(* order while the file changes                                              *)

FileA == JoinPath(RootDir, "a")

\* the goroutines that call into one cache manager: the one NewCacheManager starts for
\* performAutoCleanup, and two callers
Cleaner == "cleaner"

Callers == {"c1", "c2"}

Threads == {Cleaner} \cup Callers

\* a goroutine outside every call
Idle == [pc |-> "idle"]

\* the zero value of a sync.RWMutex
Unlocked == [writer |-> "none", readers |-> {}]

NoGoroutines ==
    /\ mutex = [store |-> Unlocked, stats |-> Unlocked]
    /\ procs = [t \in Threads |-> Idle]
    /\ log = <<>>

EmptyStore ==
    /\ store = [k \in CacheKeys |-> NoCacheFile]
    /\ stats = ZeroStats
    /\ written = [k \in CacheKeys |-> NoWrite]
    /\ hist = NoScan
    /\ ret = EnvMark
    /\ NoGoroutines

\* NewCacheManager on an empty cache directory; the file may already exist
Init ==
    /\ now = 0
    /\ fs \in [FilePaths -> {NoFile, File("x", 0)}]
    /\ \A f \in FilePaths \ {FileA} : ~fs[f].exists
    /\ EmptyStore

Next ==
    \/ Tick
    \/ \E c \in Contents : WriteFile(FileA, c)
    \/ RemoveFile(FileA)
    \/ DoGetFileContentCache(FileA)
    \/ \E c \in Contents : DoSetFileContentCache(FileA, c)
    \/ DoGetTreeSitterCache(FileA)
    \/ \E parts \in SomeCodeParts : DoSetTreeSitterCache(FileA, parts)
    \/ DoClearCache
    \/ DoResetPerformanceStats

Spec == Init /\ [][Next]_vars

----------------------------------------------------------------------------
(* The bundle cache and the snapshot cache under their logical keys, while a *)
(* file named like the snapshot key comes and goes                           *)

ScanKey == ProjectCacheKey(RootDir)

SnapKey == SnapshotKey(RootDir)

InitKeys ==
    /\ now = 0
    /\ fs \in [FilePaths -> {NoFile, File("x", 0)}]
    /\ \A f \in FilePaths \ {SnapKey} : ~fs[f].exists
    /\ EmptyStore

NextKeys ==
    \/ Tick
    \/ \E c \in {"x", "zz"} : WriteFile(SnapKey, c)
    \/ RemoveFile(SnapKey)
    \/ \E k \in {ScanKey, SnapKey} : DoGetConfigCache(k)
    \/ \E k \in {ScanKey, SnapKey}, b \in SomeBundles : DoSetConfigCache(k, b)
    \/ DoGetProjectSnapshot(SnapKey)
    \/ \E s \in SomeSnapshots : DoSetProjectSnapshot(SnapKey, s)
    \/ DoClearCache
    \/ DoResetPerformanceStats

SpecKeys == InitKeys /\ [][NextKeys]_vars

----------------------------------------------------------------------------
(* The project scan (analyzer.go) *)

\* the ignore patterns of utils.IsDefaultIgnored that name a file or a directory
DefaultIgnorePatterns ==
    {"codai-config.yml", ".git", ".svn", ".sum", ".tmp", ".tmpl", ".idea", ".vscode",
     "bin", "obj", "dist", "out", ".cache", "node_modules"}

\* utils.IsDefaultIgnored: some part of the path begins or ends with an ignore pattern.
\* The paths of the model are one part, and no longer than the shortest pattern, so that
\* a path matches a pattern only by being it
IsDefaultIgnored(relativePath) ==
    \E pattern \in DefaultIgnorePatterns :
        Len(relativePath) >= Len(pattern) /\ relativePath = pattern

\* utils.GetGitignorePatterns: the tree holds no .codai-gitignore file
GetGitignorePatterns(rootDir) == {}

\* utils.IsGitIgnored, for patterns without metacharacters
IsGitIgnored(relativePath, patterns) == \E pattern \in patterns : relativePath = pattern

\* the files a tree walk keeps: present, not ignored, and not over the size ceiling
Tracked(rootDir, relativePath) ==
    LET fileInfo == Stat(JoinPath(rootDir, relativePath)) IN
    /\ ~fileInfo.err
    /\ ~IsDefaultIgnored(relativePath)
    /\ ~(fileInfo.Size > SizeCeiling)
    /\ ~IsGitIgnored(relativePath, GetGitignorePatterns(rootDir))

\* fmt.Sprintf("%d_%d", fileInfo.ModTime().Unix(), fileInfo.Size())
SnapshotHash(fileInfo) == <<Unix(fileInfo.ModTime), fileInfo.Size>>

\* CodeAnalyzer.createProjectSnapshot
createProjectSnapshot(rootDir) ==
    ProjectSnapshot(rootDir, now,
        [p \in {q \in TreePaths : Tracked(rootDir, q)} |->
            LET fileInfo == Stat(JoinPath(rootDir, p)) IN
            FileSnapshot(p, fileInfo.ModTime, fileInfo.Size, SnapshotHash(fileInfo))])

\* the paths of a set, as the slice a loop appends them to
RECURSIVE SliceOf(_, _)
SliceOf(paths, i) ==
    IF i > Len(WalkOrder) THEN <<>>
    ELSE (IF WalkOrder[i] \in paths THEN <<WalkOrder[i]>> ELSE <<>>) \o SliceOf(paths, i + 1)

Range(slice) == {slice[i] : i \in 1..Len(slice)}

\* compareSnapshots reporting every current path as changed
compareSnapshotsAllChanged(prevSnapshot, currentSnapshot) ==
    [changedFiles |-> SliceOf(DOMAIN currentSnapshot.Files, 1),
     deletedFiles |->
         SliceOf({p \in DOMAIN prevSnapshot.Files : p \notin DOMAIN currentSnapshot.Files}, 1)]

\* the first loop of compareSnapshots without its else branch: a path the previous
\* snapshot does not hold is not reported
RECURSIVE ChangedInHashOnly(_, _, _)
ChangedInHashOnly(order, prevFiles, currentFiles) ==
    IF order = <<>> THEN <<>>
    ELSE LET relativePath == Head(order) IN
         (IF relativePath \in DOMAIN prevFiles
               /\ prevFiles[relativePath].Hash # currentFiles[relativePath].Hash
          THEN <<relativePath>>
          ELSE <<>>) \o ChangedInHashOnly(Tail(order), prevFiles, currentFiles)

\* the first loop of compareSnapshots, over currentSnapshot.Files in the order the map
\* yields its keys: a path is appended when the previous snapshot holds it with another
\* hash, or does not hold it
RECURSIVE ChangedIn(_, _, _)
ChangedIn(order, prevFiles, currentFiles) ==
    IF order = <<>> THEN <<>>
    ELSE LET relativePath == Head(order) IN
         (IF relativePath \in DOMAIN prevFiles
          THEN (IF prevFiles[relativePath].Hash # currentFiles[relativePath].Hash
                THEN <<relativePath>>
                ELSE <<>>)
          ELSE <<relativePath>>) \o ChangedIn(Tail(order), prevFiles, currentFiles)

\* the second loop of compareSnapshots, over prevSnapshot.Files
RECURSIVE DeletedIn(_, _)
DeletedIn(order, currentFiles) ==
    IF order = <<>> THEN <<>>
    ELSE (IF Head(order) \notin DOMAIN currentFiles THEN <<Head(order)>> ELSE <<>>)
         \o DeletedIn(Tail(order), currentFiles)

\* CodeAnalyzer.compareSnapshots, the two maps ranged over in the orders given
compareSnapshotsRanged(prevSnapshot, currentSnapshot, currentOrder, prevOrder) ==
    [changedFiles |-> ChangedIn(currentOrder, prevSnapshot.Files, currentSnapshot.Files),
     deletedFiles |-> DeletedIn(prevOrder, currentSnapshot.Files)]

\* CodeAnalyzer.compareSnapshots, the maps ranged over in the order of the walk
compareSnapshots(prevSnapshot, currentSnapshot) ==
    compareSnapshotsRanged(prevSnapshot, currentSnapshot,
                           SliceOf(DOMAIN currentSnapshot.Files, 1),
                           SliceOf(DOMAIN prevSnapshot.Files, 1))

\* strings.Join(elems, "\n")
RECURSIVE JoinLines(_)
JoinLines(elems) ==
    IF Len(elems) = 0 THEN ""
    ELSE IF Len(elems) = 1 THEN elems[1]
    ELSE elems[1] \o "\n" \o JoinLines(Tail(elems))

\* CodeAnalyzer.ProcessFile for a file of no supported language (the default branch):
\* the path and the first line of the source; the contents of the model are one line
ProcessFile(filePath, sourceCode) == <<filePath, sourceCode>>

\* fmt.Sprintf("**File: %s**\n\n%s", relativePath, strings.Join(codeParts, "\n"))
RawCode(relativePath, codeParts) ==
    "**File: " \o relativePath \o "**\n\n" \o JoinLines(codeParts)

\* what a scan has done so far: the cache state, the bundle under construction, the files
\* it read from disk and the files it ran ProcessFile on
Progress(st) ==
    [st |-> st, FileData |-> <<>>, RawCodes |-> <<>>, read |-> {}, processed |-> {}]

Appended(acc, st, relativePath, content, codeParts, read, processed) ==
    [st |-> st,
     FileData |-> Append(acc.FileData,
                         FileData(relativePath, content, JoinLines(codeParts))),
     RawCodes |-> Append(acc.RawCodes, RawCode(relativePath, codeParts)),
     read |-> acc.read \cup read,
     processed |-> acc.processed \cup processed]

\* the one element of a singleton; The({e(x) : x \in {v}}) is e(x) for x := v, with v
\* computed once, as an assignment of the code computes it
The(S) == CHOOSE r \in S : TRUE

\* the body of GetProjectFiles' walk for one file: cache first, disk and ProcessFile on a
\* miss, each miss refilling its cache
VisitFile(acc, rootDir, relativePath) ==
    LET path == JoinPath(rootDir, relativePath)
        Derive(content, st1, read) ==
            The({IF parts.found
                THEN Appended(acc, parts.st, relativePath, content, parts.val, read, {})
                ELSE The({Appended(acc, SetTreeSitterCache(parts.st, path, codeParts).st,
                                  relativePath, content, codeParts, read, {relativePath}) :
        codeParts \in {ProcessFile(relativePath, content)}}) :
        parts \in {GetTreeSitterCache(st1, path)}})
    IN  The({IF cached.found
            THEN Derive(cached.val, cached.st, {})
            ELSE The({The({Derive(content, st1, {relativePath}) :
        st1 \in {SetFileContentCache(cached.st, path, content).st}}) :
        content \in {fs[path].content}}) :
        cached \in {GetFileContentCache(acc.st, path)}})

\* filepath.WalkDir(rootDir, ...) of GetProjectFiles, in lexical order
RECURSIVE WalkDir(_, _, _)
WalkDir(acc, rootDir, i) ==
    IF i > Len(WalkOrder) THEN acc
    ELSE The({WalkDir(next, rootDir, i + 1) :
        next \in {IF Tracked(rootDir, WalkOrder[i])
              THEN VisitFile(acc, rootDir, WalkOrder[i])
              ELSE acc}})

\* CodeAnalyzer.GetProjectFiles
GetProjectFiles(st, rootDir) ==
    The({IF cachedData.found
        THEN [st |-> cachedData.st, bundle |-> cachedData.val, bundleHit |-> TRUE,
              walked |-> FALSE, read |-> {}, processed |-> {}]
        ELSE The({The({The({[st |-> SetConfigCache(acc.st, ProjectCacheKey(rootDir), result).st,
                  bundle |-> result, bundleHit |-> FALSE,
                  walked |-> TRUE, read |-> acc.read, processed |-> acc.processed] :
        result \in {FullContextData(acc.FileData, acc.RawCodes)}}) :
        acc \in {WalkDir(start, rootDir, 1)}}) :
        start \in {Progress(cachedData.st)}}) :
        cachedData \in {GetConfigCache(st, ProjectCacheKey(rootDir))}})

\* the loop body patching a bundle in place: only a changed file is visited
ProcessPathChangedOnly(acc, rootDir, relativePath, changedFiles) ==
    LET filePath == JoinPath(rootDir, relativePath) IN
    IF relativePath \in Range(changedFiles)
    THEN The({The({The({Appended(acc, SetTreeSitterCache(st1, filePath, codeParts).st,
                      relativePath, content, codeParts,
                      {relativePath}, {relativePath}) :
        codeParts \in {ProcessFile(relativePath, content)}}) :
        st1 \in {SetFileContentCache(acc.st, filePath, content).st}}) :
        content \in {fs[filePath].content}})
    ELSE acc

\* the body of processIncrementalChanges' loop for one path: a changed file is read and
\* processed afresh, an unchanged one goes through the caches
ProcessPath(acc, rootDir, relativePath, changedFiles) ==
    LET filePath == JoinPath(rootDir, relativePath)
        Derive(content, st1, read) ==
            The({IF parts.found
                THEN Appended(acc, parts.st, relativePath, content, parts.val, read, {})
                ELSE The({Appended(acc, SetTreeSitterCache(parts.st, filePath, codeParts).st,
                                  relativePath, content, codeParts, read, {relativePath}) :
        codeParts \in {ProcessFile(relativePath, content)}}) :
        parts \in {GetTreeSitterCache(st1, filePath)}})
    IN  IF relativePath \in Range(changedFiles)
        THEN The({The({The({Appended(acc, SetTreeSitterCache(st1, filePath, codeParts).st,
                          relativePath, content, codeParts,
                          {relativePath}, {relativePath}) :
        codeParts \in {ProcessFile(relativePath, content)}}) :
        st1 \in {SetFileContentCache(acc.st, filePath, content).st}}) :
        content \in {fs[filePath].content}})
        ELSE The({IF cached.found
                 THEN Derive(cached.val, cached.st, {})
                 ELSE The({The({Derive(content, st1, {relativePath}) :
        st1 \in {SetFileContentCache(cached.st, filePath, content).st}}) :
        content \in {fs[filePath].content}}) :
        cached \in {GetFileContentCache(acc.st, filePath)}})

\* for relativePath := range currentSnapshot.Files, in the order the map yields them
RECURSIVE RangeFiles(_, _, _, _)
RangeFiles(acc, rootDir, order, changedFiles) ==
    IF Len(order) = 0 THEN acc
    ELSE The({RangeFiles(next, rootDir, Tail(order), changedFiles) :
        next \in {ProcessPath(acc, rootDir, Head(order), changedFiles)}})

\* CodeAnalyzer.processIncrementalChanges; order is the iteration order of the map
processIncrementalChanges(st, rootDir, changedFiles, order) ==
    The({The({[st |-> acc.st, bundle |-> FullContextData(acc.FileData, acc.RawCodes),
         bundleHit |-> FALSE, walked |-> TRUE,
         read |-> acc.read, processed |-> acc.processed] :
        acc \in {RangeFiles(start, rootDir, order, changedFiles)}}) :
        start \in {Progress(st)}})

\* the orders in which a Go map with these keys may be ranged over
MapOrders(keys) ==
    {order \in [1..Cardinality(keys) -> keys] : Range(order) = keys}

NoSnapshot == ProjectSnapshot("", 0, EmptyFiles)

\* what a call of GetProjectFilesIncremental returns and leaves behind, with the record
\* of what it did: built is the result of the full scan or of the rebuild it ran
ScanResult(st, built, wasIncremental, prevSnapshot, currentSnapshot, diff, rebuilt) ==
    [st |-> st, bundle |-> built.bundle, wasIncremental |-> wasIncremental,
     prevFound |-> prevSnapshot.found,
     prev |-> IF prevSnapshot.found THEN prevSnapshot.val ELSE NoSnapshot,
     cur |-> currentSnapshot,
     changed |-> diff.changedFiles, deleted |-> diff.deletedFiles,
     rebuilt |-> rebuilt, bundleHit |-> built.bundleHit, walked |-> built.walked,
     read |-> built.read, processed |-> built.processed]

\* CodeAnalyzer.GetProjectFilesIncremental with a cache manager
GetProjectFilesIncremental(st, rootDir, order) ==
    LET snapshotKey == SnapshotKey(rootDir)
        projectCacheKey == ProjectCacheKey(rootDir)
        noDiff == [changedFiles |-> <<>>, deletedFiles |-> <<>>]
        \* no previous snapshot: a full scan, and the snapshot saved for the next call
        FullScan(prevSnapshot, currentSnapshot) ==
            The({ScanResult(SetProjectSnapshot(fullResult.st, snapshotKey,
                                              currentSnapshot).st,
                           fullResult, FALSE, prevSnapshot, currentSnapshot, noDiff, FALSE) :
        fullResult \in {GetProjectFiles(prevSnapshot.st, rootDir)}})
        \* no changes: the cached bundle, or a full scan reported as incremental
        NoChanges(prevSnapshot, currentSnapshot, diff) ==
            The({IF cachedData.found
                THEN ScanResult(cachedData.st,
                                [bundle |-> cachedData.val, bundleHit |-> TRUE,
                                 walked |-> FALSE, read |-> {}, processed |-> {}],
                                TRUE, prevSnapshot, currentSnapshot, diff, FALSE)
                ELSE The({ScanResult(fullResult.st, fullResult, TRUE,
                                    prevSnapshot, currentSnapshot, diff, FALSE) :
        fullResult \in {GetProjectFiles(cachedData.st, rootDir)}}) :
        cachedData \in {GetConfigCache(prevSnapshot.st, projectCacheKey)}})
        \* changes: the bundle rebuilt, the snapshot and the bundle saved
        Incremental(prevSnapshot, currentSnapshot, diff) ==
            The({The({ScanResult(SetConfigCache(st1, projectCacheKey,
                                          incrementalResult.bundle).st,
                           incrementalResult, TRUE,
                           prevSnapshot, currentSnapshot, diff, TRUE) :
        st1 \in {SetProjectSnapshot(incrementalResult.st, snapshotKey,
                                    currentSnapshot).st}}) :
        incrementalResult \in {processIncrementalChanges(prevSnapshot.st, rootDir,
                                           diff.changedFiles, order)}})
    IN  The({The({IF ~prevSnapshot.found
            THEN FullScan(prevSnapshot, currentSnapshot)
            ELSE The({IF Len(diff.changedFiles) = 0 /\ Len(diff.deletedFiles) = 0
                     THEN NoChanges(prevSnapshot, currentSnapshot, diff)
                     ELSE Incremental(prevSnapshot, currentSnapshot, diff) :
        diff \in {compareSnapshots(prevSnapshot.val, currentSnapshot)}}) :
        currentSnapshot \in {createProjectSnapshot(rootDir)}}) :
        prevSnapshot \in {GetProjectSnapshot(st, snapshotKey)}})

\* history after a successful scan: its bundle, and nothing has happened since
Scanned(bundle) == [scanned |-> TRUE, bundle |-> bundle, delta |-> <<"none">>]

DoGetProjectFilesIncremental(rootDir, order) ==
    /\ CanCount
    /\ order \in MapOrders({p \in TreePaths : Tracked(rootDir, p)})
    /\ \E res \in {GetProjectFilesIncremental(CacheState, rootDir, order)} :
         /\ Commit(res.st)
         /\ hist' = Scanned(res.bundle)
         /\ ret' = [op |-> "GetProjectFilesIncremental", pre |-> hist,
                    bundle |-> res.bundle, wasIncremental |-> res.wasIncremental,
                    prevFound |-> res.prevFound, prev |-> res.prev, cur |-> res.cur,
                    changed |-> Range(res.changed), deleted |-> Range(res.deleted),
                    rebuilt |-> res.rebuilt, bundleHit |-> res.bundleHit,
                    walked |-> res.walked, read |-> res.read,
                    processed |-> res.processed]
    /\ UNCHANGED <<now, fs>>
    /\ UNCHANGED aux

TickScan == now < MaxScanTime /\ Tick

\* NewCodeAnalyzer in a project directory with an empty cache; any file of the tree may
\* already exist
InitScan ==
    /\ now = 0
    /\ fs \in [FilePaths -> {NoFile, File("x", 0)}]
    /\ \A f \in FilePaths \ TreeFiles : ~fs[f].exists
    /\ EmptyStore

NextScan ==
    \/ TickScan
    \/ \E c \in {"x", "y", LargeContent} : WriteFile(JoinPath(RootDir, "a"), c)
    \/ WriteFile(JoinPath(RootDir, "b"), "x")
    \/ \E f \in TreeFiles : RemoveFile(f)
    \/ \E order \in UNION {MapOrders(keys) : keys \in SUBSET TreePaths} :
          DoGetProjectFilesIncremental(RootDir, order)
    \/ DoClearCache
    \/ DoResetPerformanceStats

SpecScan == InitScan /\ [][NextScan]_vars

----------------------------------------------------------------------------
(* Properties of the entry store and of the typed accessors *)

FileCacheGets == {"GetFileContentCache", "GetConfigCache"}

\* the entry the read found had been written while its source file had another size or
\* modification time than it has now, or the source file is gone
SourceChanged == ret.pre.type # "none" /\ ret.pre.src # Stat(ret.file)

\* C1 (Invalidation): GetFileContentCache(f) returns found only for an entry that
\* SetFileContentCache(f, v) wrote while f had the size and the modification time it has
\* now; after any change of f's size or modification time, and whatever was done to
\* other keys meanwhile, it returns (nil, false).
C1_Invalidation ==
    ret.op = "GetFileContentCache" =>
        /\ ret.found => (ret.pre.type = TBytes /\ ret.pre.src = Stat(ret.file))
        /\ ~ret.found => ret.val = "nil"

C1_Witness ==
    /\ ret.op = "GetFileContentCache"
    /\ ret.pre.type = TBytes
    /\ ~Stat(ret.file).err
    /\ ret.pre.src # Stat(ret.file)
    /\ ~ret.found

\* C2 (Stability): when the entry of f is the one SetFileContentCache(f, v) wrote and f
\* has the size and modification time it had then, GetFileContentCache(f) returns
\* (v, true) and leaves the store as it was, so that repeating it returns the same.
C2_Stability ==
    (/\ ret.op = "GetFileContentCache"
     /\ ret.pre.type = TBytes
     /\ ret.pre.src = Stat(ret.file))
    => (/\ ret.found
        /\ ret.val = ret.pre.val
        /\ ret.same
        /\ written[generateCacheKey(ret.id)] = ret.pre)

C2_Witness ==
    /\ ret.op = "GetFileContentCache"
    /\ ret.found
    /\ ret.val = "zz"
    /\ fs[ret.file].mtime < now

\* C3 (no stale read): for the content cache and for the derived-facts cache, a typed
\* get on f returns found=false once f's size or modification time differ from what
\* they were when the entry was written.
C3_NoStaleRead ==
    (/\ ret.op \in {"GetFileContentCache", "GetTreeSitterCache"}
     /\ SourceChanged
     /\ ~ret.pre.src.err)
    => ~ret.found

\* C4 (self-healing removal): a read through FileCache.Get that finds an entry whose
\* recorded size or modification time mismatch the live file, or whose source cannot be
\* stat'd, removes that entry and returns found=false: the store holds one entry less;
\* and with no entry for f a read misses, entries being written by sets alone.
C4_SelfHealing ==
    ret.op \in FileCacheGets =>
        /\ SourceChanged =>
             (/\ ~ret.found
              /\ ~store[generateCacheKey(ret.id)].exists
              /\ ret.after = ret.before - 1)
        /\ ret.pre.type = "none" => (~ret.found /\ ret.same)
        /\ \A k \in CacheKeys : store[k].exists <=> written[k].type # "none"

C4_Witness ==
    /\ ret.op = "GetFileContentCache"
    /\ SourceChanged
    /\ Stat(ret.file).err
    /\ ret.after = ret.before - 1
    /\ ret.after > 0

\* what GetProjectSnapshot(key) returns when called in the current state
SnapshotReturned(key) == GetProjectSnapshot(CacheState, key)

\* C5 (bundle cache under a logical key): SetConfigCache(k, b) under the scan key k, which
\* names no file, succeeds, and the GetConfigCache(k) that follows returns (b, true).
C5_BundleLogicalKey ==
    /\ (ret.op = "SetConfigCache" /\ ret.id = ScanKey) => ~ret.err
    /\ (ret.op = "GetConfigCache" /\ ret.id = ScanKey /\ ret.pre.type = TFullContextData)
       => (ret.found /\ ret.val = ret.pre.val)

OnSnapshotFile(r) == r.op \in {"GetConfigCache", "SetConfigCache"} /\ r.id = SnapKey

----------------------------------------------------------------------------
(* Properties of the incremental scan *)

ScanReturned == ret.op = "GetProjectFilesIncremental"

\* the scan before this one succeeded and no file was written or removed since
NothingChangedSince == ScanReturned /\ ret.pre.scanned /\ ret.pre.delta = <<"none">>

\* two bundles hold the same files, each with the same content and the same derived facts
SameBundle(b1, b2) ==
    /\ Len(b1.FileData) = Len(b2.FileData)
    /\ Range(b1.FileData) = Range(b2.FileData)
    /\ Len(b1.RawCodes) = Len(b2.RawCodes)
    /\ Range(b1.RawCodes) = Range(b2.RawCodes)

SameOrderBundle ==
    NothingChangedSince => ret.bundle = ret.pre.bundle

\* the comparison of the scan found nothing changed and nothing deleted
NoChangePath == ScanReturned /\ ret.prevFound /\ ret.changed = {} /\ ret.deleted = {}

\* C8: when the scan finds changed = {} and deleted = {} against the prior snapshot, it
\* returns the bundle of the bundle cache (a hit), the tree is not walked again, no
\* project file is read and ProcessFile runs for no file
C8_NoChangeFastPath ==
    NoChangePath =>
        /\ ret.bundleHit
        /\ ~ret.walked
        /\ ret.read = {}
        /\ ret.processed = {}

\* both snapshots track the same paths, each with the same size and modification time
SameSizeAndModTime(prevSnapshot, currentSnapshot) ==
    /\ DOMAIN prevSnapshot.Files = DOMAIN currentSnapshot.Files
    /\ \A p \in DOMAIN currentSnapshot.Files :
          /\ prevSnapshot.Files[p].Size = currentSnapshot.Files[p].Size
          /\ prevSnapshot.Files[p].ModTime = currentSnapshot.Files[p].ModTime

\* C9: the comparison of the prior snapshot with the fresh one yields changed = {} and
\* deleted = {} exactly when both track the same paths and every path has the same size
\* and the same modification time, as the filesystem reports it, in both
C9_SnapshotCompleteness ==
    (ScanReturned /\ ret.prevFound) =>
        ((ret.changed = {} /\ ret.deleted = {}) <=> SameSizeAndModTime(ret.prev, ret.cur))

\* the one file added since the last scan, when that is all that happened and the walk
\* keeps the file; the empty set otherwise
AddedSince ==
    IF ScanReturned /\ ret.pre.scanned /\ Len(ret.pre.delta) = 2
    THEN {p \in TreePaths : /\ JoinPath(RootDir, p) = ret.pre.delta[2]
                            /\ Tracked(RootDir, p)}
    ELSE {}

\* C10: of two scans with exactly one file added between them, the second's comparison
\* reports that one path as changed and none as deleted, and the second scan runs
\* ProcessFile at most once, for the added file only
C10_AddedFile ==
    \A p \in AddedSince :
        /\ ret.changed = {p}
        /\ ret.deleted = {}
        /\ ret.processed \subseteq {p}

\* a scan after "b" was added next to the unchanged "a": only "b" is processed
C10_Witness ==
    /\ AddedSince = {"b"}
    /\ Len(ret.bundle.FileData) = 2
    /\ ret.changed = {"b"}
    /\ ret.processed = {"b"}

----------------------------------------------------------------------------
(* The eviction policy (cache.go, SmartCleanupCache) *)

\* ioutil.ReadDir(cacheDir) returns the files sorted by name; the names are the hex md5 of
\* the identities: 3054.. /p_project_scan, 7610.. /p/b.treesitter, 963b.. /p/b,
\* b75f.. /p/a, d570.. /p/a.treesitter, eec2.. /p_snapshot
DirOrder ==
    <<generateCacheKey(ProjectCacheKey(RootDir)),
      generateCacheKey(TreeSitterIdentity(JoinPath(RootDir, "b"))),
      generateCacheKey(JoinPath(RootDir, "b")),
      generateCacheKey(JoinPath(RootDir, "a")),
      generateCacheKey(TreeSitterIdentity(JoinPath(RootDir, "a"))),
      generateCacheKey(SnapshotKey(RootDir))>>

\* the bytes a gob stream spends on the type description and the fixed fields of an entry
GobOverhead == 2

RECURSIVE SumLen(_)
SumLen(strings) == IF strings = <<>> THEN 0 ELSE Len(Head(strings)) + SumLen(Tail(strings))

\* the bytes the value of an entry takes in its encoding
PayloadLen(type, val) ==
    CASE type = TBytes -> Len(val)
      [] type = TStrings -> SumLen(val)
      [] type = TFullContextData -> Len(val.FileData)
      [] type = TProjectSnapshot -> Cardinality(DOMAIN val.Files)

\* file.Size() of a cache file: the length of buffer.Bytes()
GobLen(bytes) == GobOverhead + PayloadLen(GobTypeOf(bytes.wire[1]), bytes.wire[2])

\* cache.go, type CacheCleanupOptions; MaxAge in ticks, MaxSize in bytes
CacheCleanupOptions(maxAge, maxSize, maxFiles, dryRun) ==
    [MaxAge |-> maxAge, MaxSize |-> maxSize, MaxFiles |-> maxFiles, DryRun |-> dryRun]

\* the collection loop of SmartCleanupCache: one fileInfo for each file of the directory,
\* entryAge being the Timestamp of the decoded entry
RECURSIVE CollectFileInfos(_, _)
CollectFileInfos(st, i) ==
    IF i > Len(DirOrder) THEN <<>>
    ELSE LET name == DirOrder[i] IN
         (IF st.store[name].exists
          THEN <<[name |-> name, size |-> GobLen(st.store[name]),
                  entryAge |-> GobDecode(st.store[name]).Timestamp]>>
          ELSE <<>>) \o CollectFileInfos(st, i + 1)

\* one insertion of the insertion sort sort.Slice runs on a slice of fewer than 12
\* elements: f moves left past the elements it is Before
RECURSIVE InsertByAge(_, _)
InsertByAge(sorted, f) ==
    IF sorted = <<>> THEN <<f>>
    ELSE LET last == sorted[Len(sorted)] IN
         IF f.entryAge < last.entryAge
         THEN Append(InsertByAge(SubSeq(sorted, 1, Len(sorted) - 1), f), last)
         ELSE Append(sorted, f)

\* sort.Slice(fileInfos, entryAge.Before): oldest first
RECURSIVE SortByEntryAge(_)
SortByEntryAge(fileInfos) ==
    IF fileInfos = <<>> THEN <<>>
    ELSE InsertByAge(SortByEntryAge(SubSeq(fileInfos, 1, Len(fileInfos) - 1)),
                     fileInfos[Len(fileInfos)])

RECURSIVE SumSize(_)
SumSize(fileInfos) ==
    IF fileInfos = <<>> THEN 0 ELSE Head(fileInfos).size + SumSize(Tail(fileInfos))

Names(fileInfos) == {fileInfos[i].name : i \in 1..Len(fileInfos)}

\* the alreadyMarked loops left out: every file is a candidate again
RemainingFilesUnskipped(fileInfos, toDelete) == fileInfos

\* the files not yet in toDelete (the alreadyMarked loops), in the order of fileInfos
RemainingFiles(fileInfos, toDelete) ==
    SelectSeq(fileInfos, LAMBDA f : f.name \notin Names(toDelete))

\* phase 1 taking an entry cached exactly at the cutoff as well
MarkByAgeInclusive(fileInfos, options, at) ==
    IF options.MaxAge > 0
    THEN SelectSeq(fileInfos, LAMBDA f : f.entryAge <= at - options.MaxAge)
    ELSE <<>>

\* phase 1: every entry older than the cutoff
MarkByAge(fileInfos, options, at) ==
    IF options.MaxAge > 0
    THEN SelectSeq(fileInfos, LAMBDA f : f.entryAge < at - options.MaxAge)
    ELSE <<>>

\* the loop of phase 2 taking the newest remaining file, and only that one
TakeBySizeNewestFirst(remainingFiles, currentSize, maxSize) ==
    IF remainingFiles = <<>> \/ currentSize <= maxSize THEN <<>>
    ELSE <<remainingFiles[Len(remainingFiles)]>>

\* the loop of phase 2: takes the oldest remaining file while currentSize is over MaxSize
RECURSIVE TakeBySize(_, _, _)
TakeBySize(remainingFiles, currentSize, maxSize) ==
    IF remainingFiles = <<>> \/ currentSize <= maxSize THEN <<>>
    ELSE <<Head(remainingFiles)>>
         \o TakeBySize(Tail(remainingFiles), currentSize - Head(remainingFiles).size, maxSize)

\* phase 2
MarkBySize(fileInfos, toDelete, options) ==
    LET totalSize == SumSize(fileInfos) IN
    IF options.MaxSize > 0 /\ totalSize > options.MaxSize
    THEN TakeBySize(RemainingFiles(fileInfos, toDelete), totalSize - SumSize(toDelete),
                    options.MaxSize)
    ELSE <<>>

\* phase 3 removing nothing
MarkByCountNever(fileInfos, toDelete, options) == <<>>

\* phase 3: excessCount := len(remainingFiles) - (MaxFiles - len(toDelete))
MarkByCount(fileInfos, toDelete, options) ==
    IF options.MaxFiles > 0 /\ Len(fileInfos) > options.MaxFiles
    THEN LET remainingFiles == RemainingFiles(fileInfos, toDelete)
             excessCount == Len(remainingFiles) - (options.MaxFiles - Len(toDelete))
         IN  SubSeq(remainingFiles, 1,
                    IF excessCount < Len(remainingFiles) THEN excessCount
                    ELSE Len(remainingFiles))
    ELSE <<>>

\* the execution loop: os.Remove(f.path) for every f of toDelete
RECURSIVE RemoveAllOf(_, _)
RemoveAllOf(st, toDelete) ==
    IF toDelete = <<>> THEN st
    ELSE RemoveAllOf(RemoveCacheFile(st, Head(toDelete).name), Tail(toDelete))

\* the selection of SmartCleanupCache depending on DryRun: a dry run stops after phase 1
SelectionDryRunAgeOnly(st, options, at) ==
    LET fileInfos == SortByEntryAge(CollectFileInfos(st, 1))
        byAge == MarkByAge(fileInfos, options, at)
        bySize == IF options.DryRun THEN <<>> ELSE MarkBySize(fileInfos, byAge, options)
        byCount == IF options.DryRun THEN <<>>
                   ELSE MarkByCount(fileInfos, byAge \o bySize, options)
    IN  [fileInfos |-> fileInfos, byAge |-> byAge, bySize |-> bySize, byCount |-> byCount,
         toDelete |-> byAge \o bySize \o byCount]

\* the three phases of SmartCleanupCache at time at: the sorted fileInfos and what each
\* phase appends to toDelete
Selection(st, options, at) ==
    LET fileInfos == SortByEntryAge(CollectFileInfos(st, 1))
        byAge == MarkByAge(fileInfos, options, at)
        bySize == MarkBySize(fileInfos, byAge, options)
        byCount == MarkByCount(fileInfos, byAge \o bySize, options)
    IN  [fileInfos |-> fileInfos, byAge |-> byAge, bySize |-> bySize, byCount |-> byCount,
         toDelete |-> byAge \o bySize \o byCount]

\* CacheManager.SmartCleanupCache: the store after it and the summary it returns
SmartCleanupCache(st, options) ==
    The({[st |-> IF options.DryRun THEN st ELSE RemoveAllOf(st, sel.toDelete),
          sel |-> sel,
          result |->
              [files_before_cleanup |-> Len(sel.fileInfos),
               files_marked_for_delete |-> Len(sel.toDelete),
               size_to_delete |-> SumSize(sel.toDelete),
               files_actually_deleted |-> Len(sel.toDelete),
               deleted_by_age |-> Len(sel.byAge),
               deleted_by_size |-> Len(sel.bySize),
               deleted_by_count |-> Len(sel.byCount),
               files_after_cleanup |-> Len(sel.fileInfos) - Len(sel.toDelete),
               dry_run |-> options.DryRun]] :
        sel \in {Selection(st, options, now)}})

\* the options the callers of the model pass
SomeMaxAges == {0, 1}

SomeMaxSizes == {0, 4, 15}

SomeMaxFiles == {0, 1, 2}

SomeOptions ==
    {CacheCleanupOptions(a, s, n, d) :
        a \in SomeMaxAges, s \in SomeMaxSizes, n \in SomeMaxFiles, d \in BOOLEAN}

\* CacheManager.SmartCleanupCache; the call is remembered with the store it found
DoSmartCleanupCache(options) ==
    /\ \E res \in {SmartCleanupCache(CacheState, options)} :
         /\ Commit(res.st)
         /\ ret' = [op |-> "SmartCleanupCache", options |-> options, result |-> res.result,
                    sel |-> res.sel, before |-> store, at |-> now]
    /\ hist' = Evicted
    /\ UNCHANGED <<now, fs>>
    /\ UNCHANGED aux

FileB == JoinPath(RootDir, "b")

InitCleanup ==
    /\ now = 0
    /\ fs = [f \in FilePaths |-> IF f = FileA THEN File("x", 0) ELSE NoFile]
    /\ EmptyStore

NextCleanup ==
    \/ Tick
    \/ DoSetFileContentCache(FileA, "zz")
    \/ \E parts \in SomeCodeParts : DoSetTreeSitterCache(FileA, parts)
    \/ DoSetTreeSitterCache(FileB, <<"func main">>)
    \/ DoSetProjectSnapshot(SnapKey, ProjectSnapshot(RootDir, 0, EmptyFiles))
    \/ \E options \in SomeOptions : DoSmartCleanupCache(options)

SpecCleanup == InitCleanup /\ [][NextCleanup]_vars

----------------------------------------------------------------------------
(* Properties of the eviction policy *)

CleanupReturned == ret.op = "SmartCleanupCache"

\* the entries a cleanup found and the store no longer holds
Removed == {k \in CacheKeys : ret.before[k].exists /\ ~store[k].exists}

Surviving == {k \in CacheKeys : store[k].exists}

\* the cached-at timestamp of an entry the cleanup found
CachedAt(k) == GobDecode(ret.before[k]).Timestamp

StoreSize(files) == SumSize(CollectFileInfos([store |-> files], 1))

IsPrefix(s, t) == Len(s) <= Len(t) /\ s = SubSeq(t, 1, Len(s))

\* C11: after SmartCleanupCache with MaxFiles = N > 0 and DryRun = false the store holds at
\* most N entries, the removed entries are a prefix of the entries sorted ascending by
\* cached-at timestamp, and no surviving entry is older than a removed one
C11_EvictionBound ==
    (CleanupReturned /\ ~ret.options.DryRun /\ ret.options.MaxFiles > 0) =>
        /\ EntryCount(CacheState) <= ret.options.MaxFiles
        /\ \E j \in 0..Len(ret.sel.fileInfos) :
               Removed = Names(SubSeq(ret.sel.fileInfos, 1, j))
        /\ \A i \in 1..(Len(ret.sel.fileInfos) - 1) :
               ret.sel.fileInfos[i].entryAge <= ret.sel.fileInfos[i + 1].entryAge
        /\ \A r \in Removed, k \in Surviving : ~(CachedAt(k) < CachedAt(r))

\* a cleanup by count alone that removed the oldest entries and kept a newer one
C11_Witness ==
    /\ CleanupReturned /\ ~ret.options.DryRun
    /\ ret.options.MaxFiles = 2 /\ ret.options.MaxAge = 0 /\ ret.options.MaxSize = 0
    /\ ret.result.deleted_by_count = 2
    /\ EntryCount(CacheState) = 2
    /\ \E r \in Removed, k \in Surviving : CachedAt(r) < CachedAt(k)

\* C12: after SmartCleanupCache with MaxSize = B > 0 and DryRun = false the surviving
\* entries total at most B bytes; the size phase takes the oldest entries the age phase
\* left, and takes one more only while the running total is still over B
C12_ByteCeiling ==
    (CleanupReturned /\ ~ret.options.DryRun /\ ret.options.MaxSize > 0) =>
        LET B == ret.options.MaxSize
            afterAge == StoreSize(ret.before) - SumSize(ret.sel.byAge)
            bySize == ret.sel.bySize
        IN  /\ StoreSize(store) <= B
            /\ Names(ret.sel.byAge) \cap Names(bySize) = {}
            /\ IsPrefix(bySize, RemainingFiles(ret.sel.fileInfos, ret.sel.byAge))
            /\ \A i \in 1..Len(bySize) : afterAge - SumSize(SubSeq(bySize, 1, i - 1)) > B
            /\ \/ afterAge - SumSize(bySize) <= B
               \/ Names(ret.sel.byAge) \cup Names(bySize) = Names(ret.sel.fileInfos)

\* a cleanup whose age phase and size phase both took entries, the size phase stopping
\* with entries left
C12_Witness ==
    /\ CleanupReturned /\ ~ret.options.DryRun
    /\ ret.options.MaxSize = 15 /\ ret.options.MaxFiles = 0
    /\ ret.result.deleted_by_age = 1
    /\ ret.result.deleted_by_size = 1
    /\ EntryCount(CacheState) = 2

\* C13: a dry run selects what the same call with DryRun = false selects on the same store
\* at the same instant (same entries, same count for each phase), reports as many files
\* actually deleted as marked, and leaves the store as it was
C13_DryRun ==
    (CleanupReturned /\ ret.options.DryRun) =>
        LET real == Selection([store |-> ret.before],
                              [ret.options EXCEPT !.DryRun = FALSE], ret.at)
        IN  /\ ret.sel.toDelete = real.toDelete
            /\ ret.result.files_marked_for_delete = Len(real.toDelete)
            /\ ret.result.deleted_by_age = Len(real.byAge)
            /\ ret.result.deleted_by_size = Len(real.bySize)
            /\ ret.result.deleted_by_count = Len(real.byCount)
            /\ ret.result.files_actually_deleted = ret.result.files_marked_for_delete
            /\ store = ret.before

\* a dry run that marked entries in the size phase and in the count phase
C13_Witness ==
    /\ CleanupReturned /\ ret.options.DryRun
    /\ ret.result.deleted_by_size > 0
    /\ ret.result.deleted_by_count > 0
    /\ EntryCount(CacheState) = ret.result.files_before_cleanup

----------------------------------------------------------------------------
(* Goroutines: the calls of the store taken one system call at a time, under *)
(* FileCache.mutex                                                           *)

\* sync.RWMutex: a reader waits for the writer, a writer for everybody
\* an RLock that waits for nobody
CanRLockAlways(m) == TRUE

CanRLock(m) == m.writer = "none"

\* a Lock that waits for nobody
CanLockAlways(m) == TRUE

CanLock(m) == m.writer = "none" /\ m.readers = {}

RLock(m, t) == [m EXCEPT !.readers = @ \cup {t}]

RUnlock(m, t) == [m EXCEPT !.readers = @ \ {t}]

Lock(m, t) == [m EXCEPT !.writer = t]

Unlock(m) == [m EXCEPT !.writer = "none"]

\* file.Size()
FileLen(bytes) == IF GobDecodeFails(bytes) THEN Len(bytes.wire) ELSE GobLen(bytes)

At(t, pc) == procs[t].pc = pc

Goto(t, frame) == procs' = [procs EXCEPT ![t] = frame]

GetPcs == {"Get.RLock", "Get.ReadFile", "Get.isFileChanged", "Get.Remove", "Get.RUnlock"}

\* the calls that are counted and have not returned yet
InFlight == Cardinality({t \in Threads : procs[t].pc \in GetPcs})

\* history: the gets in flight for the entry a cleanup or a clear removes have raced it
Raced(frames, cacheKey) ==
    [u \in Threads |->
        IF frames[u].pc \in GetPcs /\ generateCacheKey(frames[u].filePath) = cacheKey
        THEN [frames[u] EXCEPT !.raced = TRUE]
        ELSE frames[u]]

\* a goroutine calls GetFileContentCache(filePath)
CallGetFileContentCache(t, filePath) ==
    /\ At(t, "idle")
    /\ stats.TotalRequests + InFlight < MaxRequests
    /\ Goto(t, [pc |-> "Get.RLock", filePath |-> filePath, bytes |-> NoCacheFile,
                data |-> NilData, found |-> FALSE, pre |-> NoWrite, raced |-> FALSE])
    /\ UNCHANGED <<now, fs, store, stats, written, hist, ret, mutex, log>>

\* FileCache.Get: fc.mutex.RLock()
GetRLock(t) ==
    /\ At(t, "Get.RLock")
    /\ CanRLock(mutex.store)
    /\ mutex' = [mutex EXCEPT !.store = RLock(@, t)]
    /\ Goto(t, [procs[t] EXCEPT !.pc = "Get.ReadFile"])
    /\ UNCHANGED <<now, fs, store, stats, written, hist, ret, log>>

\* the miss of FileCache.Get returning a value all the same
GetMissesWithValue(t) ==
    [procs[t] EXCEPT !.pc = "Get.RUnlock", !.bytes = NoCacheFile,
                     !.data = Iface(TBytes, ""), !.found = TRUE, !.pre = NoWrite]

\* the miss FileCache.Get returns on every path but the last: return nil, false
GetMisses(t) ==
    [procs[t] EXCEPT !.pc = "Get.RUnlock", !.bytes = NoCacheFile,
                     !.data = NilData, !.found = FALSE, !.pre = NoWrite]

\* FileCache.Get: os.Stat(cachePath) and ioutil.ReadFile(cachePath)
GetReadFile(t) ==
    /\ At(t, "Get.ReadFile")
    /\ LET cacheKey == generateCacheKey(procs[t].filePath) IN
         IF ~store[cacheKey].exists
         THEN Goto(t, GetMisses(t))
         ELSE Goto(t, [procs[t] EXCEPT !.pc = "Get.isFileChanged",
                                       !.bytes = store[cacheKey],
                                       !.pre = written[cacheKey]])
    /\ UNCHANGED <<now, fs, store, stats, written, hist, ret, mutex, log>>

\* FileCache.Get: decoder.Decode(&entry) and fc.isFileChanged(filePath, &entry)
GetIsFileChanged(t) ==
    /\ At(t, "Get.isFileChanged")
    /\ IF GobDecodeFails(procs[t].bytes) THEN Goto(t, GetMisses(t))
       ELSE IF isFileChanged(procs[t].filePath, GobDecode(procs[t].bytes))
            THEN Goto(t, [procs[t] EXCEPT !.pc = "Get.Remove", !.bytes = NoCacheFile]
                         @@ [fileInfo |-> Stat(procs[t].filePath)])
            ELSE Goto(t, [procs[t] EXCEPT !.pc = "Get.RUnlock", !.bytes = NoCacheFile,
                                          !.data = GobDecode(procs[t].bytes).Data,
                                          !.found = TRUE])
    /\ UNCHANGED <<now, fs, store, stats, written, hist, ret, mutex, log>>

\* FileCache.Get: os.Remove(cachePath) of an invalidated entry
GetRemove(t) ==
    /\ At(t, "Get.Remove")
    /\ Commit(RemoveCacheFile(CacheState, generateCacheKey(procs[t].filePath)))
    /\ Goto(t, GetMisses(t))
    /\ UNCHANGED <<now, fs, hist, ret, mutex, log>>

\* FileCache.Get returns (the deferred RUnlock), and GetFileContentCache asserts the type
\* and counts
GetRUnlock(t) ==
    /\ At(t, "Get.RUnlock")
    /\ mutex' = [mutex EXCEPT !.store = RUnlock(@, t)]
    /\ LET hit == procs[t].found /\ procs[t].data.type = TBytes IN
         /\ Commit(IF hit THEN recordCacheHit(CacheState) ELSE recordCacheMiss(CacheState))
         /\ ret' = [op |-> "GetFileContentCache", thread |-> t, id |-> procs[t].filePath,
                    found |-> hit, val |-> IF hit THEN procs[t].data.val ELSE "nil",
                    pre |-> procs[t].pre, raced |-> procs[t].raced]
    /\ Goto(t, Idle)
    /\ UNCHANGED <<now, fs, hist, log>>

\* a goroutine calls SetFileContentCache(filePath, content)
CallSetFileContentCache(t, filePath, content) ==
    /\ At(t, "idle")
    /\ Goto(t, [pc |-> "Set.Lock", filePath |-> filePath, data |-> Iface(TBytes, content)])
    /\ UNCHANGED <<now, fs, store, stats, written, hist, ret, mutex, log>>

\* FileCache.Set: fc.mutex.Lock()
SetLock(t) ==
    /\ At(t, "Set.Lock")
    /\ CanLock(mutex.store)
    /\ mutex' = [mutex EXCEPT !.store = Lock(@, t)]
    /\ Goto(t, [procs[t] EXCEPT !.pc = "Set.Stat"])
    /\ UNCHANGED <<now, fs, store, stats, written, hist, ret, log>>

\* FileCache.Set: os.Stat(filePath), and the entry encoded
SetStat(t) ==
    /\ At(t, "Set.Stat")
    /\ LET fileInfo == Stat(procs[t].filePath)
           cacheKey == generateCacheKey(procs[t].filePath)
       IN  IF fileInfo.err
           THEN Goto(t, [pc |-> "Set.Unlock", filePath |-> procs[t].filePath,
                         data |-> procs[t].data, err |-> TRUE])
           ELSE Goto(t, [pc |-> "Set.Open", filePath |-> procs[t].filePath,
                         data |-> procs[t].data,
                         gobData |-> GobEncode(CacheEntry(procs[t].data, now, fileInfo.Size,
                                                          fileInfo.ModTime, cacheKey)),
                         record |-> WriteRecord(procs[t].data, fileInfo)])
    /\ UNCHANGED <<now, fs, store, stats, written, hist, ret, mutex, log>>

\* ioutil.WriteFile: the file is opened, truncated
SetOpen(t) ==
    /\ At(t, "Set.Open")
    /\ Commit(WriteCacheFile(CacheState, generateCacheKey(procs[t].filePath), Truncated,
                             NoWrite))
    /\ Goto(t, [procs[t] EXCEPT !.pc = "Set.Write"])
    /\ UNCHANGED <<now, fs, hist, ret, mutex, log>>

\* ioutil.WriteFile: the bytes are written
SetWrite(t) ==
    /\ At(t, "Set.Write")
    /\ Commit(WriteCacheFile(CacheState, generateCacheKey(procs[t].filePath),
                             procs[t].gobData, procs[t].record))
    /\ Goto(t, [pc |-> "Set.Unlock", filePath |-> procs[t].filePath,
                data |-> procs[t].data, err |-> FALSE])
    /\ UNCHANGED <<now, fs, hist, ret, mutex, log>>

\* FileCache.Set returns (the deferred Unlock)
SetUnlock(t) ==
    /\ At(t, "Set.Unlock")
    /\ mutex' = [mutex EXCEPT !.store = Unlock(@)]
    /\ ret' = [op |-> "SetFileContentCache", thread |-> t, id |-> procs[t].filePath,
               type |-> procs[t].data.type, val |-> procs[t].data.val,
               err |-> procs[t].err]
    /\ Goto(t, Idle)
    /\ UNCHANGED <<now, fs, store, stats, written, hist, log>>

\* the names ioutil.ReadDir returns: the files of the directory, in name order
ReadDir == SelectSeq(DirOrder, LAMBDA name : store[name].exists)

\* a goroutine calls ClearCache
CallClearCache(t) ==
    /\ At(t, "idle")
    /\ Goto(t, [pc |-> "Clear.Lock"])
    /\ UNCHANGED <<now, fs, store, stats, written, hist, ret, mutex, log>>

\* ClearCache: cm.fileCache.mutex.Lock()
ClearLock(t) ==
    /\ At(t, "Clear.Lock")
    /\ CanLock(mutex.store)
    /\ mutex' = [mutex EXCEPT !.store = Lock(@, t)]
    /\ Goto(t, [pc |-> "Clear.ReadDir"])
    /\ UNCHANGED <<now, fs, store, stats, written, hist, ret, log>>

\* ClearCache: ioutil.ReadDir(cacheDir)
ClearReadDir(t) ==
    /\ At(t, "Clear.ReadDir")
    /\ Goto(t, [pc |-> "Clear.Remove", files |-> ReadDir, total |-> Len(ReadDir)])
    /\ UNCHANGED <<now, fs, store, stats, written, hist, ret, mutex, log>>

\* ClearCache: os.Remove(cachePath) of the next file
ClearRemove(t) ==
    /\ At(t, "Clear.Remove")
    /\ procs[t].files # <<>>
    /\ Commit(RemoveCacheFile(CacheState, Head(procs[t].files)))
    /\ procs' = Raced([procs EXCEPT ![t].files = Tail(@)], Head(procs[t].files))
    /\ UNCHANGED <<now, fs, hist, ret, mutex, log>>

\* ClearCache returns (the deferred Unlock)
ClearUnlock(t) ==
    /\ At(t, "Clear.Remove")
    /\ procs[t].files = <<>>
    /\ mutex' = [mutex EXCEPT !.store = Unlock(@)]
    /\ ret' = [op |-> "ClearCache", thread |-> t]
    /\ Goto(t, Idle)
    /\ UNCHANGED <<now, fs, store, stats, written, hist, log>>

\* seven days, in ticks
SevenDays == 7 * 24 * 3600 * TicksPerSec

\* performAutoCleanup: 7 days, 100 MB, 1000 files
AutoCleanupOptions == CacheCleanupOptions(SevenDays, 100 * 1024 * 1024, 1000, FALSE)

\* the goroutine of go cacheManager.performAutoCleanup(), before its first step
Spawned == [pc |-> "Cleanup.Lock", options |-> AutoCleanupOptions]

\* SmartCleanupCache: cm.fileCache.mutex.Lock()
CleanupLock(t) ==
    /\ At(t, "Cleanup.Lock")
    /\ CanLock(mutex.store)
    /\ mutex' = [mutex EXCEPT !.store = Lock(@, t)]
    /\ Goto(t, [procs[t] EXCEPT !.pc = "Cleanup.ReadDir"])
    /\ UNCHANGED <<now, fs, store, stats, written, hist, ret, log>>

\* SmartCleanupCache: the directory is read, sorted, and the three phases fill toDelete
CleanupReadDir(t) ==
    /\ At(t, "Cleanup.ReadDir")
    /\ \E sel \in {Selection(CacheState, procs[t].options, now)} :
         Goto(t, [pc |-> "Cleanup.Remove", options |-> procs[t].options,
                  toDelete |-> sel.toDelete, marked |-> Len(sel.toDelete)])
    /\ UNCHANGED <<now, fs, store, stats, written, hist, ret, mutex, log>>

\* SmartCleanupCache: os.Remove(f.path) of the next file of toDelete
CleanupRemove(t) ==
    /\ At(t, "Cleanup.Remove")
    /\ procs[t].toDelete # <<>>
    /\ Commit(RemoveCacheFile(CacheState, Head(procs[t].toDelete).name))
    /\ procs' = Raced([procs EXCEPT ![t].toDelete = Tail(@)], Head(procs[t].toDelete).name)
    /\ UNCHANGED <<now, fs, hist, ret, mutex, log>>

\* SmartCleanupCache returns (the deferred Unlock); the goroutine ends
CleanupUnlock(t) ==
    /\ At(t, "Cleanup.Remove")
    /\ procs[t].toDelete = <<>>
    /\ mutex' = [mutex EXCEPT !.store = Unlock(@)]
    /\ ret' = [op |-> "SmartCleanupCache", thread |-> t, options |-> procs[t].options,
               marked |-> procs[t].marked]
    /\ Goto(t, [pc |-> "done"])
    /\ UNCHANGED <<now, fs, store, stats, written, hist, log>>

\* the store is inside a write or a pass: a file is truncated, or a pass has removed some
\* of its files and not yet all
PartWay ==
    \/ \E k \in CacheKeys : store[k] = Truncated
    \/ \E t \in Threads :
         \/ /\ At(t, "Cleanup.Remove")
            /\ 0 < Len(procs[t].toDelete) /\ Len(procs[t].toDelete) < procs[t].marked
         \/ /\ At(t, "Clear.Remove")
            /\ 0 < Len(procs[t].files) /\ Len(procs[t].files) < procs[t].total

\* CacheManager.GetCacheStats: one ioutil.ReadDir, under no lock; the call is remembered
\* with who held FileCache.mutex while it ran
DoGetCacheStats(t) ==
    /\ At(t, "idle")
    /\ ret' = [op |-> "GetCacheStats", thread |-> t,
               cache_files |-> Len(ReadDir),
               total_size |-> SumSize([i \in 1..Len(ReadDir) |->
                                          [size |-> FileLen(store[ReadDir[i]])]]),
               writer |-> mutex.store.writer, readers |-> mutex.store.readers,
               partWay |-> PartWay]
    /\ UNCHANGED <<now, fs, store, stats, written, hist, mutex, procs, log>>

\* the entries an earlier run of the program left in the cache directory, more than seven
\* days ago: the content and the derived facts of file a
OldEntries(keep) ==
    [k \in CacheKeys |->
        IF k = generateCacheKey(FileA) /\ keep
        THEN GobEncode(CacheEntry(Iface(TBytes, "x"), 0, 1, 0, k))
        ELSE IF k = generateCacheKey(TreeSitterIdentity(FileA)) /\ keep
             THEN GobEncode(CacheEntry(Iface(TStrings, <<"func main">>), 0, 0, 0,
                                       TreeSitterIdentity(FileA)))
             ELSE NoCacheFile]

\* NewCacheManager has returned: the cleanup goroutine is started and has not run yet
InitLock ==
    /\ now = SevenDays + 1
    /\ fs = [f \in FilePaths |-> IF f = FileA THEN File("x", 0) ELSE NoFile]
    /\ \E keep \in BOOLEAN :
         /\ store = OldEntries(keep)
         /\ written = [k \in CacheKeys |->
                         IF store[k].exists
                         THEN WriteRecord(GobDecode(store[k]).Data,
                                          [err |-> FALSE, Size |-> 1, ModTime |-> 0])
                         ELSE NoWrite]
    /\ stats = ZeroStats
    /\ hist = NoScan
    /\ ret = EnvMark
    /\ mutex = [store |-> Unlocked, stats |-> Unlocked]
    /\ procs = [t \in Threads |-> IF t = Cleaner THEN Spawned ELSE Idle]
    /\ log = <<>>

NextLock ==
    \/ WriteFile(FileA, "zz")
    \/ \E t \in Callers : CallGetFileContentCache(t, FileA)
    \/ \E t \in Callers : GetRLock(t)
    \/ \E t \in Callers : GetReadFile(t)
    \/ \E t \in Callers : GetIsFileChanged(t)
    \/ \E t \in Callers : GetRemove(t)
    \/ \E t \in Callers : GetRUnlock(t)
    \/ \E t \in Callers, c \in {"x", "zz"} : CallSetFileContentCache(t, FileA, c)
    \/ \E t \in Callers : SetLock(t)
    \/ \E t \in Callers : SetStat(t)
    \/ \E t \in Callers : SetOpen(t)
    \/ \E t \in Callers : SetWrite(t)
    \/ \E t \in Callers : SetUnlock(t)
    \/ \E t \in Callers : CallClearCache(t)
    \/ \E t \in Callers : ClearLock(t)
    \/ \E t \in Callers : ClearReadDir(t)
    \/ \E t \in Callers : ClearRemove(t)
    \/ \E t \in Callers : ClearUnlock(t)
    \/ CleanupLock(Cleaner)
    \/ CleanupReadDir(Cleaner)
    \/ CleanupRemove(Cleaner)
    \/ CleanupUnlock(Cleaner)
    \/ \E t \in Callers : DoGetCacheStats(t)
    \/ DoResetPerformanceStats

SpecLock == InitLock /\ [][NextLock]_vars

----------------------------------------------------------------------------
(* Properties of the store under concurrent goroutines *)

\* the next step of goroutine t writes, truncates or removes a file of the store
AboutToMutate(t) ==
    \/ procs[t].pc \in {"Get.Remove", "Set.Open", "Set.Write"}
    \/ At(t, "Clear.Remove") /\ procs[t].files # <<>>
    \/ At(t, "Cleanup.Remove") /\ procs[t].toDelete # <<>>

\* set, clear and cleanup write and remove under the exclusive lock
WritersHoldExclusive ==
    \A t \in Threads :
        (AboutToMutate(t) /\ procs[t].pc # "Get.Remove") => mutex.store.writer = t

\* C14: every operation that writes or deletes a store file, a deletion on behalf of a
\* read included, does so holding the exclusive store lock: a goroutine holding only the
\* shared lock never mutates the store
C14_MutationUnderExclusiveLock ==
    \A t \in Threads : AboutToMutate(t) => mutex.store.writer = t

StatsReturned == ret.op = "GetCacheStats"

\* C15: statistics enumeration is serialized against set, delete, clear and cleanup: it
\* never runs while a writer holds the store lock, and never sees the store part-way
\* through a write or a cleanup pass
C15_StatsSerialized == StatsReturned => (ret.writer = "none" /\ ~ret.partWay)

TypedGetReturned == ret.op = "GetFileContentCache"

\* C16: a typed get that runs concurrently with a cleanup or a clear returns either
\* (v, true), v being the complete value last written for the key, or (nil, false)
C16_ReaderVersusEviction ==
    TypedGetReturned =>
        IF ret.found
        THEN ret.pre.type = TBytes /\ ret.val = ret.pre.val
        ELSE ret.val = "nil"

\* a get called on a valid entry lost the race: a cleanup or a clear removed the entry
\* while the get was in flight, and the get missed
C16_Witness == TypedGetReturned /\ ret.raced /\ ~ret.found

\* a get won the race: it returned the entry the startup cleanup is about to remove
C16_ReaderWins ==
    /\ TypedGetReturned /\ ret.found
    /\ At(Cleaner, "Cleanup.Lock")
    /\ store[generateCacheKey(ret.id)].exists

\* a caller stands at the lock of a get or a set
AtStoreLock(t) == procs[t].pc \in {"Get.RLock", "Set.Lock"}

\* C17: the startup cleanup blocks no caller: a get or a set issued while the pass is
\* running is not made to wait until the pass has finished
C17_CleanupBlocksNoCaller ==
    \A t \in Callers : AtStoreLock(t) => mutex.store.writer # Cleaner

----------------------------------------------------------------------------
(* The counters over a sequence of typed calls (cache_performance.go) *)

\* the typed reads and writes, by the name of the accessor
TypedGet(op, st, arg) ==
    CASE op = "GetFileContentCache" -> GetFileContentCache(st, arg)
      [] op = "GetTreeSitterCache" -> GetTreeSitterCache(st, arg)
      [] op = "GetProjectSnapshot" -> GetProjectSnapshot(st, arg)

TypedSet(op, st, arg) ==
    CASE op = "SetFileContentCache" -> SetFileContentCache(st, arg, "x")
      [] op = "SetTreeSitterCache" -> SetTreeSitterCache(st, arg, <<"func main">>)
      [] op = "SetProjectSnapshot" ->
             SetProjectSnapshot(st, arg, ProjectSnapshot(RootDir, 0, EmptyFiles))

\* the identity an accessor derives the cache key from
IdentityOf(op, arg) ==
    IF op \in {"GetTreeSitterCache", "SetTreeSitterCache"} THEN TreeSitterIdentity(arg)
    ELSE arg

\* the accessors the callers of the model use, each with its argument
TypedCalls ==
    {<<"GetFileContentCache", "SetFileContentCache", FileA>>,
     <<"GetTreeSitterCache", "SetTreeSitterCache", FileA>>,
     <<"GetProjectSnapshot", "SetProjectSnapshot", SnapKey>>}

\* a typed get; the log keeps whether the key had an entry when it was called
LoggedGet(op, arg) ==
    /\ Len(log) < MaxLog
    /\ \E got \in {TypedGet(op, CacheState, arg)} :
         /\ Commit(got.st)
         /\ ret' = GetResult(op, IdentityOf(op, arg), arg, got)
         /\ log' = Append(log, [call |-> "get", id |-> IdentityOf(op, arg),
                                cached |-> store[generateCacheKey(IdentityOf(op, arg))].exists,
                                found |-> got.found])
    /\ UNCHANGED <<now, fs, hist, mutex, procs>>

\* a typed set
LoggedSet(op, arg) ==
    /\ Len(log) < MaxLog
    /\ \E res \in {TypedSet(op, CacheState, arg)} :
         /\ Commit(res.st)
         /\ ret' = [op |-> op, id |-> IdentityOf(op, arg), err |-> res.err]
         /\ log' = Append(log, [call |-> "set", id |-> IdentityOf(op, arg),
                                err |-> res.err])
    /\ UNCHANGED <<now, fs, hist, mutex, procs>>

\* ResetPerformanceStats; the log starts again
LoggedReset ==
    /\ stats' = ZeroStats
    /\ log' = <<>>
    /\ ret' = [op |-> "ResetPerformanceStats"]
    /\ UNCHANGED <<now, fs, store, written, hist, mutex, procs>>

\* an entry is deleted (FileCache.Delete), so that its key is uncached again
LoggedDelete(identity) ==
    /\ Len(log) < MaxLog
    /\ store[generateCacheKey(identity)].exists
    /\ Commit(RemoveCacheFile(CacheState, generateCacheKey(identity)))
    /\ ret' = [op |-> "Delete", id |-> identity]
    /\ log' = Append(log, [call |-> "delete", id |-> identity])
    /\ UNCHANGED <<now, fs, hist, mutex, procs>>

InitStats ==
    /\ now = 0
    /\ fs = [f \in FilePaths |-> IF f = FileA THEN File("x", 0) ELSE NoFile]
    /\ EmptyStore

NextStats ==
    \/ \E c \in TypedCalls : LoggedGet(c[1], c[3])
    \/ \E c \in TypedCalls : LoggedSet(c[2], c[3])
    \/ \E c \in TypedCalls : LoggedDelete(IdentityOf(c[1], c[3]))
    \/ LoggedReset

SpecStats == InitStats /\ [][NextStats]_vars

----------------------------------------------------------------------------
(* Properties of the counters *)

\* since the last reset: k gets on distinct uncached keys, then one successful set and
\* one get on a key none of them used
MissesThenSetGet(k) ==
    /\ Len(log) = k + 2
    /\ \A i \in 1..k : log[i].call = "get" /\ ~log[i].cached
    /\ \A i, j \in 1..k : i # j => log[i].id # log[j].id
    /\ log[k + 1].call = "set" /\ ~log[k + 1].err
    /\ log[k + 2].call = "get" /\ log[k + 2].id = log[k + 1].id
    /\ \A i \in 1..k : log[i].id # log[k + 1].id

\* the accessors that call recordCacheHit and recordCacheMiss
CountedIdentities == {FileA, TreeSitterIdentity(FileA)}

\* the accounting of the content cache and of the derived-facts cache
CountedAccounting ==
    \A k \in 0..(MaxLog - 2) :
        (MissesThenSetGet(k) /\ \A i \in 1..(k + 2) : log[i].id \in CountedIdentities) =>
            stats = [TotalRequests |-> k + 1, CacheHits |-> 1, CacheMisses |-> k]

\* C18: from reset counters, k typed gets on distinct uncached keys followed by one set
\* and one get on a fresh key yield cache_hits = 1, cache_misses = k and
\* total_requests = k + 1; after ResetPerformanceStats all three counters read 0
C18_HitMissAccounting ==
    /\ \A k \in 0..(MaxLog - 2) :
           MissesThenSetGet(k) =>
               stats = [TotalRequests |-> k + 1, CacheHits |-> 1, CacheMisses |-> k]
    /\ ret.op = "ResetPerformanceStats" => stats = ZeroStats

TypedReads ==
    {"GetFileContentCache", "GetTreeSitterCache", "GetConfigCache", "GetProjectSnapshot"}

\* C19: every typed read adds one to total_requests and one to exactly one of the hit and
\* miss counters: to the hit counter iff it returns found = true
C19_EveryReadCounts ==
    ret.op \in TypedReads =>
        /\ ret.total = 1
        /\ ret.hits = (IF ret.found THEN 1 ELSE 0)
        /\ ret.misses = (IF ret.found THEN 0 ELSE 1)

\* the reads that go through recordCacheHit and recordCacheMiss do count
CountedReadsCount ==
    ret.op \in (TypedReads \ {"GetProjectSnapshot"}) =>
        /\ ret.total = 1
        /\ ret.hits = (IF ret.found THEN 1 ELSE 0)
        /\ ret.misses = (IF ret.found THEN 0 ELSE 1)

----------------------------------------------------------------------------
(* Goroutines: the counters taken one memory access at a time, under         *)
(* CacheStats.mutex                                                          *)

RecordPcs ==
    {"record.Lock", "record.LoadTotal", "record.StoreTotal", "record.LoadCount",
     "record.StoreCount", "record.Unlock"}

\* the counted gets that have not returned yet
Recording == Cardinality({t \in Threads : procs[t].pc \in RecordPcs})

\* a goroutine calls GetFileContentCache: FileCache.Get runs and returns, and the call
\* goes on to recordCacheHit or recordCacheMiss
CallCountedGet(t, filePath) ==
    /\ At(t, "idle")
    /\ Len(log) + Recording < MaxLog
    /\ \E got \in {FileCacheGet(CacheState, filePath)} :
         /\ store' = got.st.store
         /\ written' = got.st.written
         /\ Goto(t, [pc |-> "record.Lock",
                     hit |-> (got.found /\ got.data.type = TBytes), tmp |-> 0])
    /\ UNCHANGED <<now, fs, stats, hist, ret, mutex, log>>

\* recordCacheHit / recordCacheMiss: cm.stats.mutex.Lock()
RecordLock(t) ==
    /\ At(t, "record.Lock")
    /\ CanLock(mutex.stats)
    /\ mutex' = [mutex EXCEPT !.stats = Lock(@, t)]
    /\ Goto(t, [procs[t] EXCEPT !.pc = "record.LoadTotal"])
    /\ UNCHANGED <<now, fs, store, stats, written, hist, ret, log>>

\* cm.stats.TotalRequests++ : the load
RecordLoadTotal(t) ==
    /\ At(t, "record.LoadTotal")
    /\ Goto(t, [procs[t] EXCEPT !.pc = "record.StoreTotal", !.tmp = stats.TotalRequests])
    /\ UNCHANGED <<now, fs, store, stats, written, hist, ret, mutex, log>>

\* cm.stats.TotalRequests++ : the store
RecordStoreTotal(t) ==
    /\ At(t, "record.StoreTotal")
    /\ stats' = [stats EXCEPT !.TotalRequests = procs[t].tmp + 1]
    /\ Goto(t, [procs[t] EXCEPT !.pc = "record.LoadCount", !.tmp = 0])
    /\ UNCHANGED <<now, fs, store, written, hist, ret, mutex, log>>

\* cm.stats.CacheHits++ or cm.stats.CacheMisses++ : the load
RecordLoadCount(t) ==
    /\ At(t, "record.LoadCount")
    /\ Goto(t, [procs[t] EXCEPT !.pc = "record.StoreCount",
                  !.tmp = IF procs[t].hit THEN stats.CacheHits ELSE stats.CacheMisses])
    /\ UNCHANGED <<now, fs, store, stats, written, hist, ret, mutex, log>>

\* cm.stats.CacheHits++ or cm.stats.CacheMisses++ : the store
RecordStoreCount(t) ==
    /\ At(t, "record.StoreCount")
    /\ stats' = IF procs[t].hit THEN [stats EXCEPT !.CacheHits = procs[t].tmp + 1]
                ELSE [stats EXCEPT !.CacheMisses = procs[t].tmp + 1]
    /\ Goto(t, [procs[t] EXCEPT !.pc = "record.Unlock", !.tmp = 0])
    /\ UNCHANGED <<now, fs, store, written, hist, ret, mutex, log>>

\* the deferred cm.stats.mutex.Unlock(); the counted get returns and enters the log
RecordUnlock(t) ==
    /\ At(t, "record.Unlock")
    /\ mutex' = [mutex EXCEPT !.stats = Unlock(@)]
    /\ log' = Append(log, [call |-> "get", found |-> procs[t].hit])
    /\ ret' = [op |-> "GetFileContentCache", thread |-> t, found |-> procs[t].hit]
    /\ Goto(t, Idle)
    /\ UNCHANGED <<now, fs, store, stats, written, hist>>

\* a goroutine calls ResetPerformanceStats
CallResetPerformanceStats(t) ==
    /\ At(t, "idle")
    /\ Goto(t, [pc |-> "reset.Lock"])
    /\ UNCHANGED <<now, fs, store, stats, written, hist, ret, mutex, log>>

\* ResetPerformanceStats: cm.stats.mutex.Lock()
ResetLock(t) ==
    /\ At(t, "reset.Lock")
    /\ CanLock(mutex.stats)
    /\ mutex' = [mutex EXCEPT !.stats = Lock(@, t)]
    /\ Goto(t, [pc |-> "reset.TotalRequests"])
    /\ UNCHANGED <<now, fs, store, stats, written, hist, ret, log>>

\* ResetPerformanceStats: one counter after the other is set to 0
ResetStore(t) ==
    /\ \/ /\ At(t, "reset.TotalRequests")
          /\ stats' = [stats EXCEPT !.TotalRequests = 0]
          /\ Goto(t, [pc |-> "reset.CacheHits"])
       \/ /\ At(t, "reset.CacheHits")
          /\ stats' = [stats EXCEPT !.CacheHits = 0]
          /\ Goto(t, [pc |-> "reset.CacheMisses"])
       \/ /\ At(t, "reset.CacheMisses")
          /\ stats' = [stats EXCEPT !.CacheMisses = 0]
          /\ Goto(t, [pc |-> "reset.Unlock"])
    /\ UNCHANGED <<now, fs, store, written, hist, ret, mutex, log>>

\* ResetPerformanceStats returns (the deferred Unlock); the log starts again
ResetUnlock(t) ==
    /\ At(t, "reset.Unlock")
    /\ mutex' = [mutex EXCEPT !.stats = Unlock(@)]
    /\ log' = <<>>
    /\ ret' = [op |-> "ResetPerformanceStats", thread |-> t]
    /\ Goto(t, Idle)
    /\ UNCHANGED <<now, fs, store, stats, written, hist>>

\* a goroutine calls GetPerformanceStats
CallGetPerformanceStats(t) ==
    /\ At(t, "idle")
    /\ Goto(t, [pc |-> "read.RLock"])
    /\ UNCHANGED <<now, fs, store, stats, written, hist, ret, mutex, log>>

\* GetPerformanceStats: cm.stats.mutex.RLock()
ReadRLock(t) ==
    /\ At(t, "read.RLock")
    /\ CanRLock(mutex.stats)
    /\ mutex' = [mutex EXCEPT !.stats = RLock(@, t)]
    /\ Goto(t, [pc |-> "read.TotalRequests"])
    /\ UNCHANGED <<now, fs, store, stats, written, hist, ret, log>>

\* GetPerformanceStats: the counters are read one after the other
ReadLoad(t) ==
    /\ \/ /\ At(t, "read.TotalRequests")
          /\ Goto(t, [pc |-> "read.CacheHits", total |-> stats.TotalRequests])
       \/ /\ At(t, "read.CacheHits")
          /\ Goto(t, [pc |-> "read.CacheMisses", total |-> procs[t].total,
                      hits |-> stats.CacheHits])
       \/ /\ At(t, "read.CacheMisses")
          /\ Goto(t, [pc |-> "read.RUnlock", total |-> procs[t].total,
                      hits |-> procs[t].hits, misses |-> stats.CacheMisses])
    /\ UNCHANGED <<now, fs, store, stats, written, hist, ret, mutex, log>>

\* GetPerformanceStats returns (the deferred RUnlock)
ReadRUnlock(t) ==
    /\ At(t, "read.RUnlock")
    /\ mutex' = [mutex EXCEPT !.stats = RUnlock(@, t)]
    /\ ret' = [op |-> "GetPerformanceStats", thread |-> t,
               total_requests |-> procs[t].total, cache_hits |-> procs[t].hits,
               cache_misses |-> procs[t].misses, counted |-> Len(log)]
    /\ Goto(t, Idle)
    /\ UNCHANGED <<now, fs, store, stats, written, hist, log>>

InitCounters ==
    /\ now = 0
    /\ fs = [f \in FilePaths |-> IF f = FileA THEN File("x", 0) ELSE NoFile]
    /\ EmptyStore

NextCounters ==
    \/ DoSetFileContentCache(FileA, "x")
    \/ \E t \in Callers : CallCountedGet(t, FileA)
    \/ \E t \in Callers : RecordLock(t)
    \/ \E t \in Callers : RecordLoadTotal(t)
    \/ \E t \in Callers : RecordStoreTotal(t)
    \/ \E t \in Callers : RecordLoadCount(t)
    \/ \E t \in Callers : RecordStoreCount(t)
    \/ \E t \in Callers : RecordUnlock(t)
    \/ \E t \in Callers : CallResetPerformanceStats(t)
    \/ \E t \in Callers : ResetLock(t)
    \/ \E t \in Callers : ResetStore(t)
    \/ \E t \in Callers : ResetUnlock(t)
    \/ \E t \in Callers : CallGetPerformanceStats(t)
    \/ \E t \in Callers : ReadRLock(t)
    \/ \E t \in Callers : ReadLoad(t)
    \/ \E t \in Callers : ReadRUnlock(t)
    \/ DoClearCache

SpecCounters == InitCounters /\ [][NextCounters]_vars

\* C20: under any interleaving of typed gets, sets, counter reads and resets,
\* total_requests = cache_hits + cache_misses and no increment is lost: outside an update
\* of the counters, total_requests is the number of counted gets completed since the last
\* reset, and GetPerformanceStats reads counters that agree
C20_CounterConsistency ==
    /\ mutex.stats.writer = "none" =>
           /\ stats.TotalRequests = stats.CacheHits + stats.CacheMisses
           /\ stats.TotalRequests = Len(log)
           /\ stats.CacheHits = Cardinality({i \in 1..Len(log) : log[i].found})
    /\ ret.op = "GetPerformanceStats" =>
           /\ ret.total_requests = ret.cache_hits + ret.cache_misses
           /\ ret.total_requests = ret.counted

\* two counted gets, a hit and a miss, have completed while another goroutine stood at
\* the counters' lock
C20_Witness ==
    /\ mutex.stats.writer = "none"
    /\ stats = [TotalRequests |-> 3, CacheHits |-> 1, CacheMisses |-> 2]
    /\ \E t \in Callers : At(t, "record.Lock")
    /\ \E t \in Callers : At(t, "read.RLock")

----------------------------------------------------------------------------
(* Failure semantics: cache files damaged behind the cache manager's back,   *)
(* entries of one kind read through the accessor of another, and source      *)
(* files that are gone when an entry is written                              *)

\* the environment damages a cache file: cuts it short, overwrites it with other bytes,
\* or takes its permissions away
DamageCacheFile(cacheKey, bytes) ==
    /\ store[cacheKey] # bytes
    /\ store' = [store EXCEPT ![cacheKey] = bytes]
    /\ written' = [written EXCEPT ![cacheKey] = NoWrite]
    /\ hist' = Evicted
    /\ ret' = EnvMark
    /\ UNCHANGED <<now, fs, stats>>
    /\ UNCHANGED aux

FactsOfA == TreeSitterIdentity(FileA)

\* NewCacheManager on an empty cache directory; the file may already exist
InitFaults ==
    /\ now = 0
    /\ fs \in [FilePaths -> {NoFile, File("x", 0)}]
    /\ \A f \in FilePaths \ {FileA} : ~fs[f].exists
    /\ EmptyStore

NextFaults ==
    \/ Tick
    \/ WriteFile(FileA, "x")
    \/ RemoveFile(FileA)
    \/ \E id \in {FileA, FactsOfA}, bytes \in {Truncated, Corrupt, Denied} :
          DamageCacheFile(generateCacheKey(id), bytes)
    \/ DoGetFileContentCache(FileA)
    \/ DoGetConfigCache(FileA)
    \/ DoGetTreeSitterCache(FileA)
    \/ DoGetProjectSnapshot(FactsOfA)
    \/ DoSetFileContentCache(FileA, "x")
    \/ \E b \in SomeBundles : DoSetConfigCache(FileA, b)
    \/ DoSetTreeSitterCache(FileA, <<"func main">>)
    \/ \E snapshot \in SomeSnapshots : DoSetProjectSnapshot(FactsOfA, snapshot)
    \/ DoResetPerformanceStats

SpecFaults == InitFaults /\ [][NextFaults]_vars

\* the Go type an accessor asserts the decoded payload to be
AssertedType(op) ==
    CASE op = "GetFileContentCache" -> TBytes
      [] op = "GetConfigCache" -> TFullContextData
      [] op = "GetTreeSitterCache" -> TStrings
      [] op = "GetProjectSnapshot" -> TProjectSnapshot

\* the entry file a typed get looked for was missing, unreadable, not a complete gob
\* stream, or held a payload of another kind than the accessor's
ReadFailure ==
    \/ ret.cacheFile \in {"missing", "denied", "undecodable"}
    \/ ret.cacheFile # GobTypeName(AssertedType(ret.op))

\* C21: a typed get whose entry file is missing, unreadable, corrupt or truncated, or
\* holds a payload of another kind, returns (nil, false) and counts no hit: a read
\* failure is a miss, never an error or a value
C21_ReadFailureIsMiss ==
    ret.op \in TypedReads /\ ReadFailure =>
        ~ret.found /\ ret.val = "nil" /\ ret.hits = 0

\* a content read of a file whose entry had been cut short came back as a miss
C21_Witness ==
    /\ ret.op = "GetFileContentCache"
    /\ ret.cacheFile = "undecodable"
    /\ ~ret.found

\* the other read failures: an unreadable file, and an entry that passes the staleness
\* check and holds a payload of another kind
C21_DeniedSeen == ret.op = "GetTreeSitterCache" /\ ret.cacheFile = "denied" /\ ~ret.found

C21_OtherKindSeen ==
    /\ ret.op = "GetFileContentCache"
    /\ ret.cacheFile = GobTypeName(TFullContextData)
    /\ ret.same
    /\ ~ret.found

\* the setters that go through FileCache.Set, which stats the identity as a source file
FileCacheSets == {"SetFileContentCache", "SetConfigCache"}

TypedWrites == FileCacheSets \cup {"SetTreeSitterCache", "SetProjectSnapshot"}

\* C22: a set through FileCache.Set returns an error when the source file cannot be
\* stat'd or the entry file cannot be written, and every set returns one when the entry
\* file cannot be written; after a stat failure every file of the store, a prior entry
\* for the same file included, is as it was before the call
C22_WriteFailureSurfaced ==
    /\ ret.op \in FileCacheSets /\ Stat(ret.id).err => ret.err /\ ret.same
    /\ ret.op \in TypedWrites /\ ret.cacheFile = "denied" => ret.err /\ ret.same

\* a content set for a file that has been removed since its entry was written returned
\* an error and left that entry in place
C22_Witness ==
    /\ ret.op = "SetFileContentCache"
    /\ Stat(ret.id).err
    /\ ret.err
    /\ ret.cacheFile = GobTypeName(TBytes)
    /\ ret.same

\* a set over an entry file that cannot be written returned an error
C22_DeniedSeen ==
    ret.op \in TypedWrites /\ ~Stat(FileA).err /\ ret.cacheFile = "denied" /\ ret.err

----------------------------------------------------------------------------
(* The scan of an analyzer whose cache manager could not be constructed:     *)
(* NewCodeAnalyzer keeps cacheManager = nil and every call site tests for it *)

\* the body of GetProjectFiles' walk for one file when analyzer.cacheManager is nil: the
\* four guarded cache calls are skipped, the file is read and ProcessFile runs
VisitFileNoCache(acc, rootDir, relativePath) ==
    The({The({Appended(acc, acc.st, relativePath, content, codeParts,
                      {relativePath}, {relativePath}) :
        codeParts \in {ProcessFile(relativePath, content)}}) :
        content \in {fs[JoinPath(rootDir, relativePath)].content}})

RECURSIVE WalkDirNoCache(_, _, _)
WalkDirNoCache(acc, rootDir, i) ==
    IF i > Len(WalkOrder) THEN acc
    ELSE The({WalkDirNoCache(next, rootDir, i + 1) :
        next \in {IF Tracked(rootDir, WalkOrder[i])
              THEN VisitFileNoCache(acc, rootDir, WalkOrder[i])
              ELSE acc}})

\* a method called on the nil *CacheManager: the runtime panics on the first field read
NilDereference(st) ==
    [st |-> st, bundle |-> "nil", bundleHit |-> FALSE, walked |-> FALSE,
     read |-> {}, processed |-> {}, panicked |-> TRUE]

\* GetProjectFiles calling GetConfigCache without the test of line 71
GetProjectFilesNilUnguarded(st, rootDir) == NilDereference(st)

\* CodeAnalyzer.GetProjectFiles when analyzer.cacheManager is nil: no bundle lookup, the
\* walk, no bundle save
GetProjectFilesNil(st, rootDir) ==
    The({[st |-> acc.st, bundle |-> FullContextData(acc.FileData, acc.RawCodes),
         bundleHit |-> FALSE, walked |-> TRUE,
         read |-> acc.read, processed |-> acc.processed, panicked |-> FALSE] :
        acc \in {WalkDirNoCache(Progress(st), rootDir, 1)}})

\* CodeAnalyzer.GetProjectFilesIncremental when analyzer.cacheManager is nil:
\* return fullResult, false, err
GetProjectFilesIncrementalNil(st, rootDir) ==
    The({fullResult @@ [wasIncremental |-> FALSE] :
        fullResult \in {GetProjectFilesNil(st, rootDir)}})

\* what a scan without a cache manager returned and what it did on the way
NilScanResult(op, res) ==
    [op |-> op, manager |-> "nil", bundle |-> res.bundle, panicked |-> res.panicked,
     walked |-> res.walked, read |-> res.read, processed |-> res.processed,
     same |-> (res.st = CacheState)]

DoGetProjectFilesNil(rootDir) ==
    /\ \E res \in {GetProjectFilesNil(CacheState, rootDir)} :
         /\ Commit(res.st)
         /\ ret' = NilScanResult("GetProjectFiles", res)
    /\ UNCHANGED <<now, fs, hist>>
    /\ UNCHANGED aux

DoGetProjectFilesIncrementalNil(rootDir) ==
    /\ \E res \in {GetProjectFilesIncrementalNil(CacheState, rootDir)} :
         /\ Commit(res.st)
         /\ ret' = NilScanResult("GetProjectFilesIncremental", res)
                      @@ [wasIncremental |-> res.wasIncremental]
    /\ UNCHANGED <<now, fs, hist>>
    /\ UNCHANGED aux

\* NewCodeAnalyzer when os.MkdirAll of the cache directory fails: no cache manager, no
\* cache file, no cleanup goroutine; any file of the tree may already exist
InitNil ==
    /\ now = 0
    /\ fs \in [FilePaths -> {NoFile, File("x", 0)}]
    /\ \A f \in FilePaths \ TreeFiles : ~fs[f].exists
    /\ EmptyStore

NextNil ==
    \/ Tick
    \/ \E c \in {"x", "y", LargeContent} : WriteFile(JoinPath(RootDir, "a"), c)
    \/ WriteFile(JoinPath(RootDir, "b"), "x")
    \/ \E f \in TreeFiles : RemoveFile(f)
    \/ DoGetProjectFilesNil(RootDir)
    \/ DoGetProjectFilesIncrementalNil(RootDir)

SpecNil == InitNil /\ [][NextNil]_vars

\* the files a walk of the tree keeps, in the order of the walk
TrackedInOrder(rootDir) == SelectSeq(WalkOrder, LAMBDA p : Tracked(rootDir, p))

\* the bundle of a plain full scan: every kept file with its content on disk and the
\* facts ProcessFile derives from that content
PlainBundle(rootDir) ==
    LET paths == TrackedInOrder(rootDir)
        Code(p) == fs[JoinPath(rootDir, p)].content
    IN  FullContextData(
            [i \in 1..Len(paths) |->
                FileData(paths[i], Code(paths[i]),
                         JoinLines(ProcessFile(paths[i], Code(paths[i]))))],
            [i \in 1..Len(paths) |->
                RawCode(paths[i], ProcessFile(paths[i], Code(paths[i])))])

NilScanReturned == ret.op \in {"GetProjectFiles", "GetProjectFilesIncremental"}
                   /\ "manager" \in DOMAIN ret

\* C23: with no cache manager, GetProjectFiles returns the bundle of a plain full scan,
\* every kept file read from disk and processed, on every call; GetProjectFilesIncremental
\* returns that bundle with wasIncremental = false; neither dereferences the missing
\* manager, and no cache state is touched
C23_NoManagerAlwaysMiss ==
    NilScanReturned =>
        /\ ~ret.panicked
        /\ ret.bundle = PlainBundle(RootDir)
        /\ ret.walked
        /\ ret.read = Range(TrackedInOrder(RootDir))
        /\ ret.processed = ret.read
        /\ ret.same
        /\ ret.op = "GetProjectFilesIncremental" => ~ret.wasIncremental

\* an incremental scan of a tree of two files, without a cache manager
C23_Witness ==
    /\ NilScanReturned
    /\ ret.op = "GetProjectFilesIncremental"
    /\ ~ret.wasIncremental
    /\ Len(ret.bundle.FileData) = 2
    /\ ~ret.panicked

----------------------------------------------------------------------------
(* The store as a whole: clearing it, expiring entries by age, and the       *)
(* statistics read from the cache directory                                  *)

\* ioutil.ReadDir(cacheDir) on the store st
ReadDirOf(st) == SelectSeq(DirOrder, LAMBDA name : st.store[name].exists)

\* the cache directory is there
DirectoryExists(st) == \A k \in CacheKeys : "nodir" \notin DOMAIN st.store[k]

\* CacheManager.GetCacheStats
GetCacheStats(st) ==
    LET files == ReadDirOf(st) IN
    [err |-> ~DirectoryExists(st),
     cache_files |-> Len(files),
     total_size |-> SumSize([i \in 1..Len(files) |-> [size |-> FileLen(st.store[files[i]])]])]

\* the loop of GetDetailedCacheStats with the type switch left out: every file counts
KindCountAll(st, type) == Len(ReadDirOf(st))

\* the loop of GetDetailedCacheStats for one case of its type switch: the files that can
\* be read and decoded and hold a payload of the type
KindCount(st, type) ==
    Len(SelectSeq(ReadDirOf(st),
                  LAMBDA name : /\ ~ReadFileFails(st.store[name])
                                /\ ~GobDecodeFails(st.store[name])
                                /\ GobDecode(st.store[name]).Data.type = type))

\* CacheManager.GetDetailedCacheStats
GetDetailedCacheStats(st) ==
    GetCacheStats(st) @@
    [file_content_entries |-> KindCount(st, TBytes),
     tree_sitter_entries |-> KindCount(st, TStrings),
     snapshot_entries |-> KindCount(st, TProjectSnapshot),
     config_entries |-> KindCount(st, TFullContextData)]

\* the loop of CleanExpiredCache comparing the source's modification time the entry
\* records, not the time the entry was cached at
RECURSIVE CleanExpiredByModTime(_, _, _)
CleanExpiredByModTime(st, files, cutoff) ==
    IF files = <<>> THEN st
    ELSE LET bytes == st.store[Head(files)] IN
         CleanExpiredByModTime(
             IF ReadFileFails(bytes) \/ GobDecodeFails(bytes) THEN st
             ELSE IF GobDecode(bytes).ModTime < cutoff
                  THEN RemoveCacheFile(st, Head(files))
                  ELSE st,
             Tail(files), cutoff)

\* the loop of CleanExpiredCache: a file that cannot be read or decoded is passed over,
\* an entry whose Timestamp is Before(cutoff) is removed
RECURSIVE CleanExpired(_, _, _)
CleanExpired(st, files, cutoff) ==
    IF files = <<>> THEN st
    ELSE LET bytes == st.store[Head(files)] IN
         CleanExpired(
             IF ReadFileFails(bytes) \/ GobDecodeFails(bytes) THEN st
             ELSE IF GobDecode(bytes).Timestamp < cutoff
                  THEN RemoveCacheFile(st, Head(files))
                  ELSE st,
             Tail(files), cutoff)

\* CacheManager.CleanExpiredCache: cutoff := time.Now().Add(-maxAge)
CleanExpiredCache(st, maxAge) == CleanExpired(st, ReadDirOf(st), now - maxAge)

DoCleanExpiredCache(maxAge) ==
    /\ Commit(CleanExpiredCache(CacheState, maxAge))
    /\ hist' = Evicted
    /\ ret' = [op |-> "CleanExpiredCache", maxAge |-> maxAge, before |-> store,
               at |-> now]
    /\ UNCHANGED <<now, fs>>
    /\ UNCHANGED aux

DoGetDetailedCacheStats ==
    /\ ret' = [op |-> "GetDetailedCacheStats"] @@ GetDetailedCacheStats(CacheState)
    /\ UNCHANGED <<now, fs, store, stats, written, hist>>
    /\ UNCHANGED aux

\* NewCacheManager on an empty cache directory, next to two source files
InitStore ==
    /\ now = 0
    /\ fs = [f \in FilePaths |-> IF f \in {FileA, FileB} THEN File("x", 0) ELSE NoFile]
    /\ EmptyStore

NextStore ==
    \/ Tick
    \/ WriteFile(FileA, "zz")
    \/ DoSetFileContentCache(FileA, "x")
    \/ DoSetTreeSitterCache(FileA, <<"func main">>)
    \/ DoSetProjectSnapshot(SnapKey, ProjectSnapshot(RootDir, 0, EmptyFiles))
    \/ DoSetConfigCache(FileB, FullContextData(<<>>, <<>>))
    \/ DoGetFileContentCache(FileA)
    \/ DoClearCache
    \/ \E maxAge \in SomeMaxAges : DoCleanExpiredCache(maxAge)
    \/ DoGetCacheStats("c1")
    \/ DoGetDetailedCacheStats
    \/ DoResetPerformanceStats

SpecStore == InitStore /\ [][NextStore]_vars

----------------------------------------------------------------------------
(* Properties of clearing, expiry and statistics *)

\* every typed get the callers of the model make misses when called in store st
EveryTypedGetMisses(st) ==
    /\ \A f \in TreeFiles :
          /\ ~GetFileContentCache(st, f).found
          /\ ~GetConfigCache(st, f).found
          /\ ~GetTreeSitterCache(st, f).found
    /\ ~GetConfigCache(st, ScanKey).found
    /\ ~GetProjectSnapshot(st, SnapKey).found

\* a content set and the get that follows it, on a source file that is there and is not
\* touched between the two, succeed and hit
SetThenGetHits(st) ==
    \A f \in TreeFiles :
        ~Stat(f).err =>
            LET set == SetFileContentCache(st, f, "zz") IN
            /\ ~set.err
            /\ GetFileContentCache(set.st, f).found
            /\ GetFileContentCache(set.st, f).val = "zz"

\* C24: when ClearCache returns the store holds no entry: GetCacheStats reports
\* cache_files = 0 and every typed get misses; the cache directory is still there, and a
\* set followed by a get on an untouched file succeeds and hits
C24_ClearAll ==
    ret.op = "ClearCache" =>
        /\ ~GetCacheStats(CacheState).err
        /\ GetCacheStats(CacheState).cache_files = 0
        /\ EveryTypedGetMisses(CacheState)
        /\ DirectoryExists(CacheState)
        /\ SetThenGetHits(CacheState)

\* a clear of a store of three entries or more
C24_Witness ==
    /\ ret.op = "ClearCache"
    /\ ret.removed >= 3
    /\ GetCacheStats(CacheState).cache_files = 0
    /\ ~Stat(FileA).err

ExpiryReturned == ret.op = "CleanExpiredCache"

\* the entries the expiry found whose cached-at timestamp is older than now - maxAge
Expired == {k \in CacheKeys : ret.before[k].exists /\ CachedAt(k) < ret.at - ret.maxAge}

\* C26: CleanExpiredCache(maxAge) removes every entry whose cached-at timestamp is older
\* than now - maxAge and leaves every other entry as it was; when every entry is older
\* than that the store ends empty: cache_files = 0 and every typed get misses
C26_CleanExpired ==
    ExpiryReturned =>
        /\ \A k \in Expired : ~store[k].exists
        /\ \A k \in CacheKeys \ Expired : store[k] = ret.before[k]
        /\ (\A k \in CacheKeys : ret.before[k].exists => k \in Expired) =>
              /\ GetCacheStats(CacheState).cache_files = 0
              /\ EveryTypedGetMisses(CacheState)

\* an expiry that removed an old entry and kept a younger one, the kept one cached after
\* the modification time it records
C26_Witness ==
    /\ ExpiryReturned
    /\ Expired # {}
    /\ \E k \in CacheKeys \ Expired : store[k].exists

\* an expiry that emptied a store of two entries or more
C26_AllExpiredSeen ==
    /\ ExpiryReturned
    /\ Cardinality(Expired) >= 2
    /\ GetCacheStats(CacheState).cache_files = 0

\* the entries of one kind: the identities set with a payload of the type and not since
\* removed
StoredOfKind(type) == {k \in CacheKeys : written[k].type = type}

Stored == {k \in CacheKeys : written[k].type # "none"}

\* C27: GetCacheStats reports cache_files equal to the number of entries stored, one for
\* each identity set and not since removed; GetDetailedCacheStats reports for each kind
\* the number of stored entries of that kind, the four counts summing to at most
\* cache_files
C27_StatsReflectStore ==
    /\ ret.op = "GetCacheStats" => ret.cache_files = Cardinality(Stored)
    /\ ret.op = "GetDetailedCacheStats" =>
          /\ ret.cache_files = Cardinality(Stored)
          /\ ret.file_content_entries = Cardinality(StoredOfKind(TBytes))
          /\ ret.tree_sitter_entries = Cardinality(StoredOfKind(TStrings))
          /\ ret.snapshot_entries = Cardinality(StoredOfKind(TProjectSnapshot))
          /\ ret.config_entries = Cardinality(StoredOfKind(TFullContextData))
          /\ ret.file_content_entries + ret.tree_sitter_entries
               + ret.snapshot_entries + ret.config_entries <= ret.cache_files

\* detailed statistics of a store holding one entry of each kind
C27_Witness ==
    /\ ret.op = "GetDetailedCacheStats"
    /\ ret.cache_files = 4
    /\ ret.file_content_entries = 1
    /\ ret.tree_sitter_entries = 1
    /\ ret.snapshot_entries = 1
    /\ ret.config_entries = 1

\* basic statistics after an entry was removed by the read that found it stale
C27_RemovedSeen ==
    /\ ret.op = "GetCacheStats"
    /\ ret.cache_files = 1
    /\ written[generateCacheKey(FileA)].type = "none"
    /\ stats.CacheMisses > 0

----------------------------------------------------------------------------
(* The content entry and the derived-facts entry of one file *)

InitPair ==
    /\ now = 0
    /\ fs = [f \in FilePaths |-> IF f = FileA THEN File("x", 0) ELSE NoFile]
    /\ EmptyStore

NextPair ==
    \/ Tick
    \/ WriteFile(FileA, "zz")
    \/ RemoveFile(FileA)
    \/ DoGetFileContentCache(FileA)
    \/ DoSetFileContentCache(FileA, "x")
    \/ DoGetTreeSitterCache(FileA)
    \/ \E parts \in SomeCodeParts : DoSetTreeSitterCache(FileA, parts)
    \/ DoResetPerformanceStats

SpecPair == InitPair /\ [][NextPair]_vars

ContentKey(f) == generateCacheKey(f)

FactsKey(f) == generateCacheKey(TreeSitterIdentity(f))

\* what the two typed gets on f return when called in the current state
ContentReturned(f) ==
    [found |-> GetFileContentCache(CacheState, f).found,
     val |-> GetFileContentCache(CacheState, f).val]

FactsReturned(f) ==
    [found |-> GetTreeSitterCache(CacheState, f).found,
     val |-> GetTreeSitterCache(CacheState, f).val]

\* C25: for every file path p the content entry and the derived-facts entry of p are
\* stored under different keys; a set or a get on one of them, the get that removes a
\* stale entry included, leaves the file of the other as it was and leaves what a get on
\* the other returns as it was
C25_DisjointKeys ==
    /\ [](\A f \in TreeFiles : ContentKey(f) # FactsKey(f))
    /\ [][\A f \in TreeFiles :
            /\ (ret'.op \in {"GetFileContentCache", "SetFileContentCache"} /\ ret'.id = f)
               => (/\ store'[FactsKey(f)] = store[FactsKey(f)]
                   /\ FactsReturned(f)' = FactsReturned(f))
            /\ (/\ ret'.op \in {"GetTreeSitterCache", "SetTreeSitterCache"}
                /\ ret'.id = TreeSitterIdentity(f))
               => (/\ store'[ContentKey(f)] = store[ContentKey(f)]
                   /\ ContentReturned(f)' = ContentReturned(f))]_vars

\* the derived facts of a file were set while its content entry was there and valid
C25_Witness ==
    /\ ret.op = "SetTreeSitterCache"
    /\ ~ret.err
    /\ ContentReturned(FileA).found
    /\ FactsReturned(FileA).found

\* a content get removed the stale content entry and the derived facts are still there
C25_InvalidationSeen ==
    /\ ret.op = "GetFileContentCache"
    /\ ret.after = ret.before - 1
    /\ FactsReturned(FileA).found

----------------------------------------------------------------------------
(* The phases of SmartCleanupCache taken together *)

\* the entries the age phase and the size phase left unselected
Unselected == Len(ret.sel.fileInfos) - Len(ret.sel.byAge) - Len(ret.sel.bySize)

\* C28: the count phase of SmartCleanupCache selects nothing when the entries the age and
\* size phases left unselected number at most MaxFiles, and otherwise selects exactly
\* (unselected - MaxFiles) of them, so that min(unselected, MaxFiles) entries survive
C28_CountPhase ==
    (CleanupReturned /\ ret.options.MaxFiles > 0) =>
        LET N == ret.options.MaxFiles IN
        /\ Unselected <= N => Len(ret.sel.byCount) = 0
        /\ Unselected > N => Len(ret.sel.byCount) = Unselected - N
        /\ ~ret.options.DryRun =>
              EntryCount(CacheState) = (IF Unselected < N THEN Unselected ELSE N)

\* the count ceiling is met all the same: the count phase leaves at most MaxFiles
\* entries, and selects none when the directory held at most MaxFiles files
CountCeilingMet ==
    (CleanupReturned /\ ret.options.MaxFiles > 0) =>
        /\ Unselected - Len(ret.sel.byCount) <= ret.options.MaxFiles
        /\ Len(ret.sel.fileInfos) <= ret.options.MaxFiles => Len(ret.sel.byCount) = 0

\* C29: no entry is selected more than once across the three phases: the selected
\* entries are pairwise distinct entries of the directory, and the summary's
\* deleted_by_age + deleted_by_size + deleted_by_count equals files_marked_for_delete,
\* which is at most files_before_cleanup, whatever MaxAge, MaxSize and MaxFiles are
C29_NoDoubleMarking ==
    CleanupReturned =>
        /\ \A i, j \in 1..Len(ret.sel.toDelete) :
              ret.sel.toDelete[i].name = ret.sel.toDelete[j].name => i = j
        /\ Names(ret.sel.toDelete) \subseteq Names(ret.sel.fileInfos)
        /\ ret.sel.toDelete = ret.sel.byAge \o ret.sel.bySize \o ret.sel.byCount
        /\ ret.result.files_marked_for_delete = Len(ret.sel.toDelete)
        /\ ret.result.deleted_by_age + ret.result.deleted_by_size
              + ret.result.deleted_by_count = ret.result.files_marked_for_delete
        /\ ret.result.files_marked_for_delete <= ret.result.files_before_cleanup

\* a cleanup in which each of the three phases selected an entry
C29_Witness ==
    /\ CleanupReturned
    /\ ret.result.deleted_by_age > 0
    /\ ret.result.deleted_by_size > 0
    /\ ret.result.deleted_by_count > 0

----------------------------------------------------------------------------
(* compareSnapshots as a function of two snapshots *)

\* the snapshots createProjectSnapshot can make of a tree of up to two files, each file
\* of one byte and modified in one of three seconds
SnapshotsOfTree ==
    {ProjectSnapshot(RootDir, 0,
         [p \in paths |-> FileSnapshot(p, modTime[p], 1,
                                       SnapshotHash([ModTime |-> modTime[p], Size |-> 1]))]) :
        modTime \in [TreePaths -> {0, TicksPerSec, 2 * TicksPerSec}], paths \in SUBSET TreePaths}

DoCompareSnapshots(prevSnapshot, currentSnapshot, currentOrder, prevOrder) ==
    /\ \E diff \in {compareSnapshotsRanged(prevSnapshot, currentSnapshot,
                                             currentOrder, prevOrder)} :
         ret' = [op |-> "compareSnapshots", prev |-> prevSnapshot,
                 cur |-> currentSnapshot,
                 changed |-> diff.changedFiles, deleted |-> diff.deletedFiles]
    /\ UNCHANGED <<now, fs, store, stats, written, hist>>
    /\ UNCHANGED aux

InitCompare ==
    /\ now = 0
    /\ fs = [f \in FilePaths |-> NoFile]
    /\ EmptyStore

NextCompare ==
    \E prevSnapshot \in SnapshotsOfTree, currentSnapshot \in SnapshotsOfTree :
        \E currentOrder \in MapOrders(DOMAIN currentSnapshot.Files),
           prevOrder \in MapOrders(DOMAIN prevSnapshot.Files) :
            DoCompareSnapshots(prevSnapshot, currentSnapshot, currentOrder, prevOrder)

SpecCompare == InitCompare /\ [][NextCompare]_vars

NoRepeats(slice) == \A i, j \in 1..Len(slice) : slice[i] = slice[j] => i = j

\* C30: compareSnapshots(prev, cur) returns as changed the paths of cur that prev does
\* not hold or holds with another composite hash, and as deleted the paths of prev that
\* cur does not hold; the two are disjoint, no path appears twice, and a rename shows as
\* the old path deleted and the new path changed
C30_CompareSnapshots ==
    ret.op = "compareSnapshots" =>
        LET prevFiles == ret.prev.Files
            currentFiles == ret.cur.Files
        IN  /\ Range(ret.changed) =
                  {p \in DOMAIN currentFiles :
                      \/ p \notin DOMAIN prevFiles
                      \/ prevFiles[p].Hash # currentFiles[p].Hash}
            /\ Range(ret.deleted) = {p \in DOMAIN prevFiles : p \notin DOMAIN currentFiles}
            /\ Range(ret.changed) \cap Range(ret.deleted) = {}
            /\ NoRepeats(ret.changed) /\ NoRepeats(ret.deleted)
            /\ \A old \in DOMAIN prevFiles, new \in DOMAIN currentFiles :
                  (old \notin DOMAIN currentFiles /\ new \notin DOMAIN prevFiles)
                  => (old \in Range(ret.deleted) /\ new \in Range(ret.changed))

\* a rename of "a" to "b", size and modification time kept: "a" deleted, "b" changed
C30_Witness ==
    /\ ret.op = "compareSnapshots"
    /\ DOMAIN ret.prev.Files = {"a"}
    /\ DOMAIN ret.cur.Files = {"b"}
    /\ ret.prev.Files["a"].Hash = ret.cur.Files["b"].Hash
    /\ ret.deleted = <<"a">>
    /\ ret.changed = <<"b">>

----------------------------------------------------------------------------
(* Properties of the bundle and of the persisted snapshot after a scan *)

\* the paths of a bundle, in the order of its FileData
BundlePaths(bundle) == [i \in 1..Len(bundle.FileData) |-> bundle.FileData[i].RelativePath]

\* the scan found something changed or deleted and rebuilt the bundle
Rebuilt == ScanReturned /\ ret.rebuilt

C32_SnapshotReplaced ==
    ScanReturned =>
        /\ SnapshotReturned(SnapKey).found
        /\ SnapshotReturned(SnapKey).val.Files = ret.cur.Files

\* the same of the path set and the hashes alone
PersistedHashes ==
    ScanReturned =>
        /\ SnapshotReturned(SnapKey).found
        /\ DOMAIN SnapshotReturned(SnapKey).val.Files = DOMAIN ret.cur.Files
        /\ \A p \in DOMAIN ret.cur.Files :
              SnapshotReturned(SnapKey).val.Files[p].Hash = ret.cur.Files[p].Hash

\* C36: the bundle an incremental rebuild returns is the bundle a full scan of the same
\* tree returns: the same FileData and the same RawCodes, in the same order
C36_BundleDeterminism == Rebuilt => ret.bundle = PlainBundle(RootDir)

\* the same of the order of the paths alone
RebuildInWalkOrder == Rebuilt => BundlePaths(ret.bundle) = TrackedInOrder(RootDir)

\* the same of the files alone, whatever their order
RebuildSameFiles == Rebuilt => SameBundle(ret.bundle, PlainBundle(RootDir))

----------------------------------------------------------------------------
(* Scans of a tree whose files are modified so that the stat of a modified file differs *)
(* from the stat any cache entry of it recorded *)

\* the stat a cache entry of the file recorded when it was written, if there is an entry
RecordedStats(path) ==
    {written[generateCacheKey(id)].src :
        id \in {i \in {path, TreeSitterIdentity(path)} :
                    written[generateCacheKey(i)].type # "none"}}

\* the environment writes a file so that its size or its modification time differs from
\* what it was and from what any cache entry of the file recorded
Modify(path, content) ==
    /\ Stat(path) # [err |-> FALSE, Size |-> Size(content), ModTime |-> now]
    /\ [err |-> FALSE, Size |-> Size(content), ModTime |-> now] \notin RecordedStats(path)
    /\ WriteFile(path, content)

\* CodeAnalyzer.GetProjectFiles called on its own
DoGetProjectFiles(rootDir) ==
    /\ CanCount
    /\ \E res \in {GetProjectFiles(CacheState, rootDir)} :
         /\ Commit(res.st)
         /\ hist' = Scanned(res.bundle)
         /\ ret' = [op |-> "GetProjectFiles", pre |-> hist, bundle |-> res.bundle,
                    bundleHit |-> res.bundleHit, walked |-> res.walked,
                    read |-> res.read, processed |-> res.processed]
    /\ UNCHANGED <<now, fs>>
    /\ UNCHANGED aux

NextFresh ==
    \/ TickScan
    \/ \E c \in {"x", "y", "zz"} : Modify(JoinPath(RootDir, "a"), c)
    \/ Modify(JoinPath(RootDir, "b"), "x")
    \/ \E order \in UNION {MapOrders(keys) : keys \in SUBSET TreePaths} :
          DoGetProjectFilesIncremental(RootDir, order)
    \/ DoGetProjectFiles(RootDir)
    \/ DoResetPerformanceStats

SpecFresh == InitScan /\ [][NextFresh]_vars

\* a scan of either kind returned
AnyScanReturned ==
    ret.op \in {"GetProjectFilesIncremental", "GetProjectFiles"} /\ "manager" \notin DOMAIN ret

\* the files of the tree a scan keeps
KeptPaths == {p \in TreePaths : Tracked(RootDir, p)}

\* the bundle has an entry for the path that carries the content on disk
FreshCode(bundle, p) ==
    \E i \in 1..Len(bundle.FileData) :
        /\ bundle.FileData[i].RelativePath = p
        /\ bundle.FileData[i].Code = fs[JoinPath(RootDir, p)].content

\* the bundle has an entry for the path that carries the facts of the content on disk
FreshFacts(bundle, p) ==
    \E i \in 1..Len(bundle.FileData) :
        /\ bundle.FileData[i].RelativePath = p
        /\ bundle.FileData[i].TreeSitterCode =
               JoinLines(ProcessFile(p, fs[JoinPath(RootDir, p)].content))

\* a get of the content entry of the path would return the content on disk
RefreshedContent(p) ==
    LET got == GetFileContentCache(CacheState, JoinPath(RootDir, p)) IN
    got.found /\ got.val = fs[JoinPath(RootDir, p)].content

\* a get of the derived-facts entry of the path would return the facts of the content on disk
RefreshedFacts(p) ==
    LET got == GetTreeSitterCache(CacheState, JoinPath(RootDir, p)) IN
    got.found /\ got.val = ProcessFile(p, fs[JoinPath(RootDir, p)].content)

\* C33: when a file of the tree was modified so that its size or modification time
\* changed, the next scan (GetProjectFilesIncremental or GetProjectFiles) returns a bundle
\* whose entry for the file carries its current content and the facts derived from that
\* content, and leaves content and derived-facts entries that return the same
C33_EndToEndFreshness ==
    AnyScanReturned =>
        \A p \in KeptPaths :
            /\ FreshCode(ret.bundle, p)
            /\ FreshFacts(ret.bundle, p)
            /\ RefreshedContent(p)
            /\ RefreshedFacts(p)

\* the same of the content alone
FreshContentOnly ==
    AnyScanReturned =>
        \A p \in KeptPaths : FreshCode(ret.bundle, p) /\ RefreshedContent(p)

\* the same of the incremental scan alone
FreshIncremental ==
    ScanReturned =>
        \A p \in KeptPaths : FreshFacts(ret.bundle, p) /\ RefreshedFacts(p)

----------------------------------------------------------------------------
(* Key-space separation *)

\* what GetConfigCache would return for the identity in this state
ConfigReturned(identity) ==
    LET got == GetConfigCache(CacheState, identity) IN
    IF got.found THEN <<"found", got.val>> ELSE <<"none">>

\* what GetProjectSnapshot would return for the identity in this state
SnapshotFound(identity) ==
    LET got == GetProjectSnapshot(CacheState, identity) IN
    IF got.found THEN <<"found", got.val>> ELSE <<"none">>

\* C34: distinct (kind, identity) pairs never share a store file: a set through one
\* typed accessor leaves every entry written through another accessor as it was, also
\* when a file's path equals a logical "<dir>_snapshot" key
C34_KeySpaceSeparation ==
    [][/\ ret'.op = "SetConfigCache" => SnapshotFound(SnapKey)' = SnapshotFound(SnapKey)
       /\ ret'.op = "SetProjectSnapshot" => ConfigReturned(SnapKey)' = ConfigReturned(SnapKey)]_vars

\* the same of entries of one kind under different identities
SeparateIdentities ==
    [][/\ (ret'.op = "SetConfigCache" /\ ret'.id = SnapKey)
            => ConfigReturned(ScanKey)' = ConfigReturned(ScanKey)
       /\ (ret'.op = "SetConfigCache" /\ ret'.id = ScanKey)
            => ConfigReturned(SnapKey)' = ConfigReturned(SnapKey)]_vars

----------------------------------------------------------------------------
(* The two age evictions compared *)

\* the store SmartCleanupCache({MaxAge: d, DryRun: false}) leaves when it runs on the
\* store CleanExpiredCache(d) found, at the same instant
AfterSmartCleanup ==
    LET found == [CacheState EXCEPT !.store = ret.before]
        sel == Selection(found, CacheCleanupOptions(ret.maxAge, 0, 0, FALSE), ret.at)
    IN  RemoveAllOf(found, sel.toDelete).store

\* C40: on a store whose entries all decode and for d > 0, CleanExpiredCache(d) and
\* SmartCleanupCache({MaxAge: d, DryRun: false}) remove the same entries, those cached
\* before now - d, and leave the same survivors
C40_AgeEvictionEquivalence ==
    (ExpiryReturned /\ ret.maxAge > 0) =>
        /\ store = AfterSmartCleanup
        /\ {k \in CacheKeys : ret.before[k].exists /\ ~store[k].exists} = Expired

\* an expiry with d > 0 that removed an entry and kept one cached exactly at now - d
C40_Witness ==
    /\ ExpiryReturned
    /\ ret.maxAge > 0
    /\ Expired # {}
    /\ \E k \in CacheKeys :
          store[k].exists /\ GobDecode(store[k]).Timestamp = ret.at - ret.maxAge

----------------------------------------------------------------------------
(* What the invalidation of a get removes *)

\* the comparison of isFileChanged for the stat a get took
StatDiffers(fileInfo, entry) ==
    fileInfo.err \/ fileInfo.ModTime # entry.ModTime \/ fileInfo.Size # entry.FileSize

\* the get of goroutine t has gone through its invalidation
Invalidated(t) == At(t, "Get.RUnlock") /\ "fileInfo" \in DOMAIN procs[t]

\* C38: the os.Remove of a get removes an entry only if the size or modification time the
\* entry records differ from the stat of the source file taken in that same get, or that
\* stat failed: a get racing a set of the same key never deletes the entry the set wrote
C38_GetDeletesOnlyStale ==
    [][\A t \in Callers :
          (/\ At(t, "Get.Remove")
           /\ procs'[t].pc # "Get.Remove"
           /\ store[generateCacheKey(procs[t].filePath)].exists
           /\ ~store'[generateCacheKey(procs[t].filePath)].exists)
          => /\ ~GobDecodeFails(store[generateCacheKey(procs[t].filePath)])
             /\ StatDiffers(procs[t].fileInfo,
                            GobDecode(store[generateCacheKey(procs[t].filePath)]))]_vars

\* a get has removed a stale entry while a set of the same key waits for the lock the get
\* holds
C38_Witness ==
    \E t, u \in Callers :
        /\ Invalidated(t)
        /\ ~store[generateCacheKey(procs[t].filePath)].exists
        /\ At(u, "Set.Lock")
        /\ procs[u].filePath = procs[t].filePath

----------------------------------------------------------------------------
(* The visit of one file by a scan, step by step, while the file is rewritten *)

Scanner == "c1"

\* the environment writes a new version of a file: its modification time is later than
\* that of the version before, so a size and modification time name one version
WriteNewVersion(path, content) ==
    /\ fs[path].exists => fs[path].mtime < now
    /\ WriteFile(path, content)

\* the walk reaches the file: GetFileContentCache(path), and on a hit the content is the
\* cached one
VisitGetContent(t, relativePath) ==
    /\ At(t, "idle")
    /\ CanCount
    /\ Tracked(RootDir, relativePath)
    /\ \E cached \in {GetFileContentCache(CacheState, JoinPath(RootDir, relativePath))} :
         /\ Commit(cached.st)
         /\ Goto(t, IF cached.found
                    THEN [pc |-> "Visit.Derive", relativePath |-> relativePath,
                          content |-> cached.val]
                    ELSE [pc |-> "Visit.ReadFile", relativePath |-> relativePath])
    /\ UNCHANGED <<now, fs, hist, ret, mutex, log>>

\* on a miss: ioutil.ReadFile(path); an error ends the walk
VisitReadFile(t) ==
    /\ At(t, "Visit.ReadFile")
    /\ LET path == JoinPath(RootDir, procs[t].relativePath) IN
         IF ~fs[path].exists
         THEN Goto(t, Idle)
         ELSE Goto(t, [pc |-> "Visit.Set", relativePath |-> procs[t].relativePath,
                       content |-> fs[path].content])
    /\ UNCHANGED <<now, fs, store, stats, written, hist, ret, mutex, log>>

\* SetFileContentCache(path, content): FileCache.Set stats the file and writes the entry
VisitSet(t) ==
    /\ At(t, "Visit.Set")
    /\ Commit(SetFileContentCache(CacheState, JoinPath(RootDir, procs[t].relativePath),
                                  procs[t].content).st)
    /\ Goto(t, [procs[t] EXCEPT !.pc = "Visit.Derive"])
    /\ UNCHANGED <<now, fs, hist, ret, mutex, log>>

\* the rest of the visit: the derived facts from their cache or from ProcessFile, and the
\* FileData appended
VisitDerive(t) ==
    /\ At(t, "Visit.Derive")
    /\ LET relativePath == procs[t].relativePath
           path == JoinPath(RootDir, relativePath)
           parts == GetTreeSitterCache(CacheState, path)
           codeParts == IF parts.found THEN parts.val
                        ELSE ProcessFile(relativePath, procs[t].content)
       IN  /\ Commit(IF parts.found THEN parts.st
                     ELSE SetTreeSitterCache(parts.st, path, codeParts).st)
           /\ ret' = [op |-> "VisitFile",
                      data |-> FileData(relativePath, procs[t].content,
                                        JoinLines(codeParts))]
    /\ Goto(t, Idle)
    /\ UNCHANGED <<now, fs, hist, mutex, log>>

InitVisit ==
    /\ now = 0
    /\ fs = [f \in FilePaths |-> IF f = FileA THEN File("x", 0) ELSE NoFile]
    /\ EmptyStore

NextVisit ==
    \/ Tick
    \/ \E c \in {"x", "y"} : WriteNewVersion(FileA, c)
    \/ VisitGetContent(Scanner, "a")
    \/ VisitReadFile(Scanner)
    \/ VisitSet(Scanner)
    \/ VisitDerive(Scanner)
    \/ DoGetFileContentCache(FileA)
    \/ DoResetPerformanceStats

SpecVisit == InitVisit /\ [][NextVisit]_vars

\* C35: whenever GetFileContentCache(f) returns (v, true) for an entry a scan wrote, v is
\* the content of the version of f whose size and modification time the entry records;
\* a hit means the entry records the stat of the version on disk, and no two versions
\* share a modification time, so v is the content on disk
C35_ContentOfRecordedVersion ==
    (ret.op = "GetFileContentCache" /\ ret.found) => ret.val = fs[ret.file].content

----------------------------------------------------------------------------
(* The incremental rebuild step by step, while the tree changes *)

\* GetProjectFilesIncremental on every branch but the rebuild, which has no second walk
DoGetProjectFilesIncrementalNoRebuild(rootDir, order) ==
    /\ order \in MapOrders({p \in TreePaths : Tracked(rootDir, p)})
    /\ ~GetProjectFilesIncremental(CacheState, rootDir, order).rebuilt
    /\ DoGetProjectFilesIncremental(rootDir, order)

\* GetProjectFilesIncremental up to its rebuild branch: the previous snapshot is loaded,
\* the current one built by a walk of the tree, and the two differ
ScanCompare(t, rootDir) ==
    /\ At(t, "idle")
    /\ CanCount
    /\ \E prevSnapshot \in {GetProjectSnapshot(CacheState, SnapshotKey(rootDir))} :
         /\ prevSnapshot.found
         /\ \E currentSnapshot \in {createProjectSnapshot(rootDir)} :
              \E diff \in {compareSnapshots(prevSnapshot.val, currentSnapshot)} :
                 /\ Len(diff.changedFiles) > 0 \/ Len(diff.deletedFiles) > 0
                 /\ Goto(t, [pc |-> "Scan.Rebuild", rootDir |-> rootDir,
                             prev |-> prevSnapshot.val, cur |-> currentSnapshot,
                             diff |-> diff])
    /\ UNCHANGED <<now, fs, store, stats, written, hist, ret, mutex, log>>

\* processIncrementalChanges: a second walk of the tree builds the snapshot the loop
\* ranges over, and every path of it is read or taken from the caches
ScanRebuild(t, order) ==
    /\ At(t, "Scan.Rebuild")
    /\ order \in MapOrders({p \in TreePaths : Tracked(procs[t].rootDir, p)})
    /\ \E incrementalResult \in {processIncrementalChanges(CacheState, procs[t].rootDir,
                                       procs[t].diff.changedFiles, order)} :
         /\ Commit(incrementalResult.st)
         /\ Goto(t, [procs[t] EXCEPT !.pc = "Scan.Save"]
                    @@ [result |-> [incrementalResult EXCEPT !.st = "saved"]])
    /\ UNCHANGED <<now, fs, hist, ret, mutex, log>>

\* saveProjectSnapshot of the snapshot of the first walk, SetConfigCache of the bundle,
\* and the return
ScanSave(t) ==
    /\ At(t, "Scan.Save")
    /\ \E st1 \in {SetProjectSnapshot(CacheState, SnapshotKey(procs[t].rootDir),
                                       procs[t].cur).st} :
         Commit(SetConfigCache(st1, ProjectCacheKey(procs[t].rootDir),
                               procs[t].result.bundle).st)
    /\ hist' = Scanned(procs[t].result.bundle)
    /\ ret' = [op |-> "GetProjectFilesIncremental", pre |-> hist,
               bundle |-> procs[t].result.bundle, wasIncremental |-> TRUE,
               prevFound |-> TRUE, prev |-> procs[t].prev, cur |-> procs[t].cur,
               changed |-> Range(procs[t].diff.changedFiles),
               deleted |-> Range(procs[t].diff.deletedFiles),
               rebuilt |-> TRUE, bundleHit |-> FALSE, walked |-> TRUE,
               read |-> procs[t].result.read, processed |-> procs[t].result.processed]
    /\ Goto(t, Idle)
    /\ UNCHANGED <<now, fs, mutex, log>>

\* files come and go between the steps of a scan; the clock stands still, a file is
\* added or removed and never rewritten
NextRace ==
    \/ \E f \in TreeFiles : WriteFile(f, "x")
    \/ \E f \in TreeFiles : RemoveFile(f)
    \/ \E order \in UNION {MapOrders(keys) : keys \in SUBSET TreePaths} :
          DoGetProjectFilesIncrementalNoRebuild(RootDir, order)
    \/ ScanCompare(Scanner, RootDir)
    \/ \E order \in UNION {MapOrders(keys) : keys \in SUBSET TreePaths} :
          ScanRebuild(Scanner, order)
    \/ ScanSave(Scanner)
    \/ DoResetPerformanceStats

SpecRace == InitScan /\ [][NextRace]_vars

\* C37: after a successful incremental rebuild the persisted snapshot and the returned
\* bundle describe one manifest: the paths of the persisted snapshot are the paths of
\* the bundle's FileData, also when files are added or removed while the scan runs
C37_OneManifest ==
    Rebuilt =>
        /\ SnapshotReturned(SnapKey).found
        /\ DOMAIN SnapshotReturned(SnapKey).val.Files = Range(BundlePaths(ret.bundle))

----------------------------------------------------------------------------
(* The locks every operation of the cache manager takes, in the order it takes them *)

\* one step of an operation: a lock call on FileCache.mutex ("store") or on
\* CacheStats.mutex ("stats"), the work done on the files, the counting, or a panic
Instr(do, m) == [do |-> do, m |-> m]

\* the operations a caller starts
CallerOps ==
    {"GetFileContentCache", "GetTreeSitterCache", "SetFileContentCache",
     "SetTreeSitterCache", "ClearCache", "SmartCleanupCache",
     "GetCacheStats", "GetPerformanceStats", "ResetPerformanceStats",
     "GetFullCacheReport"}

\* the operations that end in recordCacheHit or recordCacheMiss
CountedOps == {"GetFileContentCache", "GetTreeSitterCache"}

\* the steps of each operation, from its source
Script(op) ==
    CASE op = "GetFileContentCache" ->
            \* FileCache.Get under RLock; the count after Get has returned
            <<Instr("RLock", "store"), Instr("body", "store"), Instr("RUnlock", "store"),
              Instr("Lock", "stats"), Instr("count", "stats"), Instr("Unlock", "stats")>>
      [] op = "GetTreeSitterCache" ->
            \* the count inside the deferred RUnlock of the store lock
            <<Instr("RLock", "store"), Instr("body", "store"),
              Instr("Lock", "stats"), Instr("count", "stats"), Instr("Unlock", "stats"),
              Instr("RUnlock", "store")>>
      [] op \in {"SetFileContentCache", "SetTreeSitterCache", "ClearCache",
                 "SmartCleanupCache", "performAutoCleanup"} ->
            <<Instr("Lock", "store"), Instr("body", "store"), Instr("Unlock", "store")>>
      [] op = "GetCacheStats" ->
            <<Instr("body", "store")>>
      [] op = "GetPerformanceStats" ->
            <<Instr("RLock", "stats"), Instr("body", "stats"), Instr("RUnlock", "stats")>>
      [] op = "ResetPerformanceStats" ->
            <<Instr("Lock", "stats"), Instr("body", "stats"), Instr("Unlock", "stats")>>
      [] op = "GetFullCacheReport" ->
            \* GetPerformanceStats, GetDetailedCacheStats, perfStats["hit_rate"].(float64)
            <<Instr("RLock", "stats"), Instr("body", "stats"), Instr("RUnlock", "stats"),
              Instr("body", "store"), Instr("panic", "none")>>

\* what the work of an operation leaves in the store and the counters, and whether a
\* get found its entry
Effect(op, st) ==
    CASE op = "GetFileContentCache" ->
            LET got == FileCacheGet(st, FileA) IN
            [st |-> got.st, found |-> got.found /\ got.data.type = TBytes]
      [] op = "GetTreeSitterCache" ->
            [st |-> st, found |-> RawGet(st, TreeSitterIdentity(FileA), TStrings).found]
      [] op = "SetFileContentCache" ->
            [st |-> SetFileContentCache(st, FileA, "x").st, found |-> FALSE]
      [] op = "SetTreeSitterCache" ->
            [st |-> SetTreeSitterCache(st, FileA, <<"func main">>).st, found |-> FALSE]
      [] op = "ClearCache" -> [st |-> ClearCacheFiles(st), found |-> FALSE]
      [] op = "SmartCleanupCache" ->
            [st |-> SmartCleanupCache(st, CacheCleanupOptions(0, 0, 1, FALSE)).st,
             found |-> FALSE]
      [] op = "performAutoCleanup" ->
            [st |-> SmartCleanupCache(st, AutoCleanupOptions).st, found |-> FALSE]
      [] op = "ResetPerformanceStats" -> [st |-> [st EXCEPT !.stats = ZeroStats],
                                          found |-> FALSE]
      [] OTHER -> [st |-> st, found |-> FALSE]

\* goroutine t is inside an operation
InCall(t) == At(t, "call")

\* the step goroutine t is at; past the last step the operation returns
AtInstr(t) ==
    IF InCall(t) /\ procs[t].at <= Len(Script(procs[t].op))
    THEN Script(procs[t].op)[procs[t].at]
    ELSE Instr("return", "none")

Advance(t) == Goto(t, [procs[t] EXCEPT !.at = @ + 1])

\* the counted calls that have not counted yet
Uncounted == Cardinality({t \in Threads : InCall(t) /\ procs[t].op \in CountedOps})

\* a goroutine calls an operation
CallOp(t, op) ==
    /\ At(t, "idle")
    /\ op \in CountedOps => stats.TotalRequests + Uncounted < MaxRequests
    /\ Goto(t, [pc |-> "call", op |-> op, at |-> 1, found |-> FALSE])
    /\ UNCHANGED <<now, fs, store, stats, written, hist, ret, mutex, log>>

\* a goroutine is blocked in Lock(): sync.RWMutex lets no new reader in until it has had
\* the lock
WriterWaits(m) == \E u \in Threads : AtInstr(u).do = "Lock" /\ AtInstr(u).m = m

\* the lock call goroutine t is at can return now
CanAcquire(t) ==
    IF AtInstr(t).do = "Lock" THEN CanLock(mutex[AtInstr(t).m])
    ELSE CanRLock(mutex[AtInstr(t).m]) /\ ~WriterWaits(AtInstr(t).m)

\* mutex.Lock() or mutex.RLock(): the goroutine waits until the lock can be had
Acquire(t) ==
    /\ AtInstr(t).do \in {"Lock", "RLock"}
    /\ CanAcquire(t)
    /\ LET m == AtInstr(t).m IN
         mutex' = [mutex EXCEPT ![m] = IF AtInstr(t).do = "Lock"
                                       THEN Lock(@, t) ELSE RLock(@, t)]
    /\ Advance(t)
    /\ UNCHANGED <<now, fs, store, stats, written, hist, ret, log>>

\* mutex.Unlock() or mutex.RUnlock(), deferred or not
Release(t) ==
    /\ AtInstr(t).do \in {"Unlock", "RUnlock"}
    /\ LET m == AtInstr(t).m IN
         mutex' = [mutex EXCEPT ![m] = IF AtInstr(t).do = "Unlock"
                                       THEN Unlock(@) ELSE RUnlock(@, t)]
    /\ Advance(t)
    /\ UNCHANGED <<now, fs, store, stats, written, hist, ret, log>>

\* the work of the operation between its lock calls
Body(t) ==
    /\ AtInstr(t).do = "body"
    /\ \E res \in {Effect(procs[t].op, CacheState)} :
         /\ Commit(res.st)
         /\ Goto(t, [procs[t] EXCEPT !.at = @ + 1, !.found = res.found])
    /\ UNCHANGED <<now, fs, hist, ret, mutex, log>>

\* recordCacheHit or recordCacheMiss, inside the counter lock
Count(t) ==
    /\ AtInstr(t).do = "count"
    /\ Commit(IF procs[t].found THEN recordCacheHit(CacheState)
              ELSE recordCacheMiss(CacheState))
    /\ Advance(t)
    /\ UNCHANGED <<now, fs, hist, ret, mutex, log>>

\* GetFullCacheReport after GetDetailedCacheStats: an error is returned when the directory
\* cannot be read; otherwise perfStats["hit_rate"].(float64) is evaluated, the map has no
\* such key, and the type assertion on the nil interface panics
Panic(t) ==
    /\ AtInstr(t).do = "panic"
    /\ IF DirectoryExists(CacheState)
       THEN Goto(t, [pc |-> "panic", op |-> procs[t].op])
       ELSE Advance(t)
    /\ UNCHANGED <<now, fs, store, stats, written, hist, ret, mutex, log>>

\* the operation returns; the goroutine of the startup cleanup ends
Return(t) ==
    /\ InCall(t)
    /\ AtInstr(t).do = "return"
    /\ Goto(t, IF t = Cleaner THEN [pc |-> "done"] ELSE Idle)
    /\ UNCHANGED <<now, fs, store, stats, written, hist, ret, mutex, log>>

\* NewCacheManager has returned: go cacheManager.performAutoCleanup() has not run yet
InitOrder ==
    /\ now = 0
    /\ fs = [f \in FilePaths |-> IF f = FileA THEN File("x", 0) ELSE NoFile]
    /\ store = [k \in CacheKeys |-> NoCacheFile]
    /\ stats = ZeroStats
    /\ written = [k \in CacheKeys |-> NoWrite]
    /\ hist = NoScan
    /\ ret = EnvMark
    /\ mutex = [store |-> Unlocked, stats |-> Unlocked]
    /\ procs = [t \in Threads |->
                  IF t = Cleaner
                  THEN [pc |-> "call", op |-> "performAutoCleanup", at |-> 1,
                        found |-> FALSE]
                  ELSE Idle]
    /\ log = <<>>

NextOrder ==
    \/ \E t \in Callers, op \in CallerOps : CallOp(t, op)
    \/ \E t \in Threads : Acquire(t)
    \/ \E t \in Threads : Release(t)
    \/ \E t \in Threads : Body(t)
    \/ \E t \in Threads : Count(t)
    \/ \E t \in Threads : Panic(t)
    \/ \E t \in Threads : Return(t)

SpecOrder == InitOrder /\ [][NextOrder]_vars

\* every goroutine inside an operation takes its next step sooner or later; a goroutine
\* waiting for a lock gets it if the lock is free again and again (sync.RWMutex starves
\* neither readers nor writers)
FairOrder ==
    \A t \in Threads :
        /\ WF_vars(Release(t) \/ Body(t) \/ Count(t) \/ Panic(t) \/ Return(t))
        /\ SF_vars(Acquire(t))

SpecOrderFair == SpecOrder /\ FairOrder

\* the goroutines that hold a lock
Holders(m) == m.readers \cup (IF m.writer = "none" THEN {} ELSE {m.writer})

\* a goroutine asks for the store lock only while it holds no counter lock
LockOrder ==
    \A t \in Threads :
        (AtInstr(t).do \in {"Lock", "RLock"} /\ AtInstr(t).m = "store")
        => t \notin Holders(mutex.stats)

\* a goroutine never asks for a lock it holds
NoReacquire ==
    \A t \in Threads :
        AtInstr(t).do \in {"Lock", "RLock"} => t \notin Holders(mutex[AtInstr(t).m])

\* goroutine t waits for a lock it cannot have now
Blocked(t) == AtInstr(t).do \in {"Lock", "RLock"} /\ ~CanAcquire(t)

\* while some goroutine is inside an operation, some goroutine inside one can step
NoDeadlock ==
    (\E t \in Threads : InCall(t)) => (\E t \in Threads : InCall(t) /\ ~Blocked(t))

\* no lock is held by a goroutine outside every operation
NoLockLeft ==
    \A t \in Threads :
        ~InCall(t) => t \notin Holders(mutex.store) \cup Holders(mutex.stats)

\* C39: no interleaving of cache operations deadlocks: the store lock and the counter
\* lock are taken in the order store, counter only, neither is asked for by its holder,
\* and every operation releases what it holds and returns
C39_DeadlockFreedom ==
    /\ [](LockOrder /\ NoReacquire /\ NoDeadlock /\ NoLockLeft)
    /\ \A t \in Threads : InCall(t) ~> ~InCall(t) /\ ~At(t, "panic")

\* the same of every operation but GetFullCacheReport
OthersReturn ==
    \A t \in {Cleaner, Scanner} :
        (InCall(t) /\ procs[t].op # "GetFullCacheReport") ~> ~InCall(t)

====
